---- MODULE Spec2Model ----
(***************************************************************************)
(* Segment-based editing model of the setsound suite: the useHistory hook, *)
(* the AudioUtils buffer operations, and the cutter and joiner tools that  *)
(* edit segment lists through them.                                        *)
(*                                                                         *)
(* Time is counted in integer ticks of 1/(100*Eps) second, so that the     *)
(* source's 0.01 s tolerance is Eps ticks and its 0.1 s minimum segment    *)
(* duration is 10*Eps ticks.  Array indices are 0-based as in the source;  *)
(* the sequence position of index i is i + 1.                              *)
(***************************************************************************)
EXTENDS Integers, Sequences, FiniteSets, TLC

VARIABLES
    tool,           \* which component is mounted: "hook", "cutter", "joiner"
    history,        \* useHistory: history (useState<T[]>)
    currentIndex,   \* useHistory: currentIndex (useState), 0-based
    maxHistory,     \* useHistory: the maxHistory prop
    nextVal,        \* hook alone: the next fresh state value handed to push/reset
    pushRun,        \* hook alone: pushes since construction/reset, -1 once undo/redo ran
    audioBuffer,    \* AudioCutter: audioBuffer; AudioJoiner: mergedBuffer
    selectedSegmentId,  \* AudioCutter: selectedSegmentId (0 for null)
    currentTime,    \* useAudioPlayer: currentTime (the cutter's playhead)
    localTime,      \* TrackTimeline: localTime, per track id
    now,            \* Date.now() at the latest cut, in ms
    loads,          \* files decoded so far (names the random ids they were given)
    edits,          \* cutter: edits pushed so far; joiner: pushes so far
    lastOp,         \* the handler that ran last, with what it read (observation only)
    closure,        \* what the handlers of the last render closed over: current, currentIndex
    player          \* useAudioPlayer: isPlaying, the refs, and the audio context it drives

hookVars == <<history, currentIndex, maxHistory>>
toolVars == <<audioBuffer, selectedSegmentId, currentTime,
              localTime, now, loads, edits>>
vars == <<tool, history, currentIndex, maxHistory, nextVal, pushRun,
          audioBuffer, selectedSegmentId, currentTime,
          localTime, now, loads, edits, lastOp, closure, player>>

-----------------------------------------------------------------------------
(* Bounds of the model *)

\* largest maxHistory prop tried for the hook alone
MaxCap == 3
\* number of push/reset calls in one run of the hook alone
MaxPushes == 6
\* number of edits (cut, delete, resize) in one run of the cutter
MaxEdits == 3
\* number of pushes (load, cut, select, delete, resize) in one run of the joiner
MaxJoinerPushes == 4
\* a throw of the buffer work is tried while fewer cutter edits than this ran
MaxThrowEdits == 2
\* a throw of a joiner cut or resize is tried while fewer pushes than this ran
MaxThrowPushes == 3
\* length of the decoded test file, in samples
FileSamples == 24
\* number of files decoded in one run of the joiner
MaxFiles == 2

-----------------------------------------------------------------------------
(* useHistory *)

\* maxHistory = 50 when the prop is not given
DefaultMaxHistory == 50

\* current = history[currentIndex]
Current(h, idx) == h[idx + 1]

canUndo == currentIndex > 0

canRedo == currentIndex < Len(history) - 1

\* faulty variant of push: the oldest entry is never shifted out
HPushNoShift(h, idx, newState, max) ==
    LET newHistory == SubSeq(h, 1, idx + 1) \o <<newState>>
    IN  [history |-> newHistory, currentIndex |-> Len(newHistory) - 1]

\* faulty variant of push: the entries after the cursor are not sliced off
HPushNoSlice(h, idx, newState, max) ==
    LET appended == h \o <<newState>>
        newHistory == IF Len(appended) > max THEN Tail(appended) ELSE appended
    IN  [history |-> newHistory, currentIndex |-> Len(newHistory) - 1]

\* push: slice(0, currentIndex + 1), push(newState), shift() when over
\* maxHistory, setCurrentIndex(newHistory.length - 1)
\* faulty variant: the pushed state also takes the place of the entry that was
\* current, as it would if the edit had changed that snapshot in place
HPushInPlace(h, idx, newState, max) ==
    [history |-> SubSeq(h, 1, idx) \o <<newState, newState>>,
     currentIndex |-> idx + 1]

HPush(h, idx, newState, max) ==
    LET appended == SubSeq(h, 1, idx + 1) \o <<newState>>
        newHistory == IF Len(appended) > max THEN Tail(appended) ELSE appended
    IN  [history |-> newHistory, currentIndex |-> Len(newHistory) - 1]

\* faulty variant of undo: the canUndo test is missing
HUndoUnguarded(h, idx) == idx - 1

\* undo: if (canUndo) setCurrentIndex(prev => prev - 1)
HUndo(h, idx) == IF idx > 0 THEN idx - 1 ELSE idx

\* redo: if (canRedo) setCurrentIndex(prev => prev + 1)
HRedo(h, idx) == IF idx < Len(h) - 1 THEN idx + 1 ELSE idx

\* faulty variant: the new state is appended to the history that is there
HResetKeepsHistory(newInitialState) ==
    [history |-> Append(history, newInitialState), currentIndex |-> Len(history)]

\* reset: setHistory([newInitialState]); setCurrentIndex(0)
HReset(newInitialState) == [history |-> <<newInitialState>>, currentIndex |-> 0]

-----------------------------------------------------------------------------
(* The hook alone, driven with fresh state values 0, 1, 2, ... *)

NoOp == [op |-> "none"]

NoBuffer == [sampleRate |-> 0, channels |-> <<>>]

\* every action of a tool ends with the re-render, so its handlers always
\* close over the current state and the closure need not be kept
NoClosure == [current |-> <<>>, currentIndex |-> 0]

\* no useAudioPlayer transport is driven
NoPlayer == [mounted |-> FALSE]

\* the tool state before anything is loaded
ToolIdle ==
    /\ closure = NoClosure
    /\ player = NoPlayer
    /\ audioBuffer = NoBuffer
    /\ selectedSegmentId = 0
    /\ currentTime = 0
    /\ localTime = <<>>
    /\ now = 1000
    /\ loads = 0
    /\ edits = 0

InitH ==
    /\ tool = "hook"
    /\ maxHistory \in 1..MaxCap
    /\ history = <<0>>
    /\ currentIndex = 0
    /\ nextVal = 1
    /\ pushRun = 0
    /\ ToolIdle
    /\ lastOp = NoOp

HookPush ==
    /\ tool = "hook"
    /\ nextVal <= MaxPushes
    /\ LET r == HPush(history, currentIndex, nextVal, maxHistory)
       IN  /\ history' = r.history
           /\ currentIndex' = r.currentIndex
    /\ nextVal' = nextVal + 1
    /\ pushRun' = IF pushRun >= 0 THEN pushRun + 1 ELSE pushRun
    /\ lastOp' = [op |-> "push", arg |-> nextVal,
                  preHistory |-> history, preIndex |-> currentIndex]
    /\ UNCHANGED <<closure, player, tool, maxHistory, toolVars>>

HookUndo ==
    /\ tool = "hook"
    /\ currentIndex' = HUndo(history, currentIndex)
    /\ pushRun' = -1
    /\ lastOp' = [op |-> "undo", preHistory |-> history, preIndex |-> currentIndex]
    /\ UNCHANGED <<closure, player, tool, history, maxHistory, nextVal, toolVars>>

HookRedo ==
    /\ tool = "hook"
    /\ currentIndex' = HRedo(history, currentIndex)
    /\ pushRun' = -1
    /\ lastOp' = [op |-> "redo", preHistory |-> history, preIndex |-> currentIndex]
    /\ UNCHANGED <<closure, player, tool, history, maxHistory, nextVal, toolVars>>

HookReset ==
    /\ tool = "hook"
    /\ nextVal <= MaxPushes
    /\ LET r == HReset(nextVal)
       IN  /\ history' = r.history
           /\ currentIndex' = r.currentIndex
    /\ nextVal' = nextVal + 1
    /\ pushRun' = 0
    /\ lastOp' = [op |-> "reset", arg |-> nextVal,
                  preHistory |-> history, preIndex |-> currentIndex]
    /\ UNCHANGED <<closure, player, tool, maxHistory, toolVars>>

NextH == HookPush \/ HookUndo \/ HookRedo \/ HookReset

SpecH == InitH /\ [][NextH]_vars

-----------------------------------------------------------------------------
(* AudioUtils: buffers are [sampleRate, channels], channels a sequence of     *)
(* equally long sample sequences                                              *)

\* 0.01 s, the tolerance of the cut and resize guards, in ticks
Eps == 3

\* 0.1 s, the shortest segment a resize aims for
MinDuration == 10 * Eps

TicksPerSecond == 100 * Eps

Min(a, b) == IF a < b THEN a ELSE b

Max(a, b) == IF a > b THEN a ELSE b

\* AudioBuffer.length
BufLength(b) == IF b.channels = <<>> THEN 0 ELSE Len(b.channels[1])

\* AudioBuffer.duration = length / sampleRate, in ticks
Duration(b) ==
    IF b.sampleRate = 0 THEN 0
    ELSE (BufLength(b) * TicksPerSecond) \div b.sampleRate

\* Math.floor(time * sampleRate), time in ticks
SampleAt(time, sampleRate) == (time * sampleRate) \div TicksPerSecond

\* trimAudioBuffer without the floor of one sample on the new length
TrimNoMinimum(b, startTime, endTime) ==
    LET validStartTime == Max(0, Min(startTime, Duration(b)))
        validEndTime == Max(validStartTime, Min(endTime, Duration(b)))
        startSample == SampleAt(validStartTime, b.sampleRate)
        endSample == SampleAt(validEndTime, b.sampleRate)
        newLength == endSample - startSample
    IN  [sampleRate |-> b.sampleRate,
         channels |->
            [c \in 1..Len(b.channels) |->
                [i \in 1..newLength |->
                    IF startSample + i <= BufLength(b)
                    THEN b.channels[c][startSample + i]
                    ELSE 0]]]

\* trimAudioBuffer: clamp both times, floor to samples, at least 1 sample,
\* newData[i] = oldData[startSample + i] || 0
TrimAudioBuffer(b, startTime, endTime) ==
    LET validStartTime == Max(0, Min(startTime, Duration(b)))
        validEndTime == Max(validStartTime, Min(endTime, Duration(b)))
        startSample == SampleAt(validStartTime, b.sampleRate)
        endSample == SampleAt(validEndTime, b.sampleRate)
        newLength == Max(1, endSample - startSample)
    IN  [sampleRate |-> b.sampleRate,
         channels |->
            [c \in 1..Len(b.channels) |->
                [i \in 1..newLength |->
                    IF startSample + i <= BufLength(b)
                    THEN b.channels[c][startSample + i]
                    ELSE 0]]]

RECURSIVE Concat(_)
\* the samples of a list of channel data, one after the other
Concat(datas) ==
    IF datas = <<>> THEN <<>> ELSE Head(datas) \o Concat(Tail(datas))

\* mergeAudioBuffers throws on an empty list
MergeThrows(buffers) == Len(buffers) = 0

\* mergeAudioBuffers: rate of the first buffer, as many channels as the widest
\* input, each input's last channel repeated for the channels it lacks
MergeAudioBuffers(buffers) ==
    LET numberOfChannels ==
            CHOOSE n \in {Len(buffers[k].channels) : k \in 1..Len(buffers)} :
                \A k \in 1..Len(buffers) : Len(buffers[k].channels) <= n
    IN  [sampleRate |-> buffers[1].sampleRate,
         channels |->
            [c \in 1..numberOfChannels |->
                Concat([k \in 1..Len(buffers) |->
                    buffers[k].channels[Min(c, Len(buffers[k].channels))]])]]

\* segments.map(seg => seg.buffer)
Buffers(segments) == [i \in 1..Len(segments) |-> segments[i].buffer]

-----------------------------------------------------------------------------
(* Segment lists *)

\* the decoded file: FileSamples mono samples, one sample every 2 ticks
FileA ==
    [sampleRate |-> TicksPerSecond \div 2,
     channels |-> <<[i \in 1..FileSamples |-> 100 + i]>>]

\* the second file of the joiner: stereo, one sample every 3 ticks
FileB ==
    [sampleRate |-> TicksPerSecond \div 3,
     channels |-> <<[i \in 1..(FileSamples \div 2) |-> 200 + i],
                    [i \in 1..(FileSamples \div 2) |-> 300 + i]>>]

\* a file whose duration is not a whole number of ticks: one sample every
\* 1.5 ticks, so that its duration is a rounded number, as length / sampleRate
\* is in floating point
FileC ==
    [sampleRate |-> (2 * TicksPerSecond) \div 3,
     channels |-> <<[i \in 1..(FileSamples + 9) |-> 400 + i]>>]

\* playhead positions the user clicks
ClickTimes == {21, 34}

\* pointer positions of a resize drag
DragTimes == {13, 40}

\* milliseconds between two cuts
Elapsed == {1, 2}

\* findIndex(s => s.id === id): 0-based, -1 when absent
FindIndex(segments, id) ==
    IF \E i \in 1..Len(segments) : segments[i].id = id
    THEN (CHOOSE i \in 1..Len(segments) :
            /\ segments[i].id = id
            /\ \A j \in 1..(i - 1) : segments[j].id # id) - 1
    ELSE -1

\* filter(seg => seg.id !== id)
RECURSIVE FilterOut(_, _)
FilterOut(segments, id) ==
    IF segments = <<>> THEN <<>>
    ELSE IF Head(segments).id = id THEN FilterOut(Tail(segments), id)
    ELSE <<Head(segments)>> \o FilterOut(Tail(segments), id)

RECURSIVE SumDurations(_, _)
\* the position reached after the first n segments, accumulating durations
SumDurations(segments, n) ==
    IF n = 0 THEN 0
    ELSE SumDurations(segments, n - 1) + Duration(segments[n].buffer)

\* faulty variant of the recalculation: the segments keep their times
RecalculateKeepTimes(segments) == segments

\* faulty variant of the recalculation: positions accumulate from the first
\* segment's old start instead of 0
RecalculateFromFirstStart(segments) ==
    [i \in 1..Len(segments) |->
        [segments[i] EXCEPT
            !.startTime = segments[1].startTime + SumDurations(segments, i - 1),
            !.endTime = segments[1].startTime + SumDurations(segments, i)]]

\* let currentPosition = 0; segments.map(seg => ({...seg, startTime:
\* currentPosition, endTime: currentPosition + seg.buffer.duration}))
Recalculate(segments) ==
    [i \in 1..Len(segments) |->
        [segments[i] EXCEPT !.startTime = SumDurations(segments, i - 1),
                            !.endTime = SumDurations(segments, i)]]

\* faulty variant: the 0.01 s margins are missing
ContainsNoMargin(segment, cutTime) ==
    cutTime >= segment.startTime /\ cutTime <= segment.endTime

\* the cut condition of both tools
Contains(segment, cutTime) ==
    cutTime > segment.startTime + Eps /\ cutTime < segment.endTime - Eps

\* position (1-based) of the first segment the cut falls in, 0 when none
CutPosition(segments, cutTime) ==
    IF \E i \in 1..Len(segments) : Contains(segments[i], cutTime)
    THEN CHOOSE i \in 1..Len(segments) :
            /\ Contains(segments[i], cutTime)
            /\ \A j \in 1..(i - 1) : ~Contains(segments[j], cutTime)
    ELSE 0

\* the two halves of a cut segment, before their times are set
BeforeBuffer(segment, cutTime) ==
    TrimAudioBuffer(segment.buffer, 0, cutTime - segment.startTime)

AfterBuffer(segment, cutTime) ==
    TrimAudioBuffer(segment.buffer, cutTime - segment.startTime,
                    Duration(segment.buffer))

Segment(id, buffer, startTime, endTime) ==
    [id |-> id, buffer |-> buffer, startTime |-> startTime,
     endTime |-> endTime, selected |-> FALSE]

-----------------------------------------------------------------------------
(* AudioCutter *)

\* the file selections tried in the joiner
JoinerFiles == {<<FileA>>, <<FileB>>}

\* what a handler leaves in lastOp: the list it read, the history it found,
\* its arguments, whether it pushed, the notice it raised, and whether its
\* buffer work threw
Op(name, track, pre, id, pos, edge, at, committed, notice, threw) ==
    [op |-> name, track |-> track, pre |-> pre, id |-> id, pos |-> pos,
     edge |-> edge, at |-> at, committed |-> committed, notice |-> notice,
     threw |-> threw,
     preHistory |-> IF committed THEN <<>> ELSE history,
     preIndex |-> currentIndex, preLength |-> Len(history)]

\* const segments = historyState.segments
CutterSegments == Current(history, currentIndex).segments

\* useAudioPlayer: duration = audioBuffer?.duration || 0
duration == Duration(audioBuffer)

\* the effect on [segments]: setAudioBuffer(merge of the segments' buffers)
\* when the list is not empty
UpdateAudioBuffer(segments, old) ==
    IF Len(segments) > 0 THEN MergeAudioBuffers(Buffers(segments)) ELSE old

\* push, and what follows the re-render with the new current state
CutterPush(newSegments) ==
    LET r == HPush(history, currentIndex, [segments |-> newSegments, zoom |-> 1],
                   maxHistory)
    IN  /\ history' = r.history
        /\ currentIndex' = r.currentIndex
        /\ audioBuffer' = UpdateAudioBuffer(newSegments, audioBuffer)
        /\ edits' = edits + 1

InitCutter ==
    /\ tool = "cutter"
    /\ maxHistory = DefaultMaxHistory
    /\ history = <<[segments |-> <<>>, zoom |-> 1]>>
    /\ currentIndex = 0
    /\ nextVal = 0
    /\ pushRun = 0
    /\ ToolIdle
    /\ lastOp = NoOp

\* handleFileSelect; the file input is rendered only while audioBuffer is null
CutterFileSelect(buffer) ==
    /\ tool = "cutter"
    /\ audioBuffer = NoBuffer
    /\ LET initialSegment == Segment(1, buffer, 0, Duration(buffer))
           r == HReset([segments |-> <<initialSegment>>, zoom |-> 1])
       IN  /\ history' = r.history
           /\ currentIndex' = r.currentIndex
           /\ audioBuffer' = UpdateAudioBuffer(<<initialSegment>>, buffer)
    /\ loads' = loads + 1
    /\ lastOp' = Op("load", 0, CutterSegments, 0, 0, "none", 0, TRUE, "", FALSE)
    /\ UNCHANGED <<closure, player, tool, maxHistory, nextVal, pushRun, selectedSegmentId,
                   currentTime, localTime, now, edits>>

\* handleCanvasClick: deselect, seek(clamped click time); the player is at rest
CutterCanvasClick(clickTime) ==
    /\ tool = "cutter"
    /\ audioBuffer # NoBuffer
    /\ clickTime <= duration
    /\ selectedSegmentId' = 0
    /\ currentTime' = Max(0, Min(Max(0, Min(clickTime, duration)), duration))
    /\ lastOp' = NoOp
    /\ UNCHANGED <<closure, player, tool, hookVars, nextVal, pushRun, audioBuffer,
                   localTime, now, loads, edits>>

\* handleSegmentClick
CutterSegmentClick(segmentId) ==
    /\ tool = "cutter"
    /\ audioBuffer # NoBuffer
    /\ \E i \in 1..Len(CutterSegments) : CutterSegments[i].id = segmentId
    /\ selectedSegmentId' = IF selectedSegmentId = segmentId THEN 0 ELSE segmentId
    /\ lastOp' = NoOp
    /\ UNCHANGED <<closure, player, tool, hookVars, nextVal, pushRun, audioBuffer,
                   currentTime, localTime, now, loads, edits>>

\* the loop of handleCutAtPosition: the first segment holding cutTime becomes
\* two, with the times the cut asked for; the others are kept as they are
CutterCutSegments(segments, cutTime, ms) ==
    LET p == CutPosition(segments, cutTime)
        segment == segments[p]
    IN  IF p = 0 THEN segments
        ELSE SubSeq(segments, 1, p - 1)
             \o <<Segment(ms, BeforeBuffer(segment, cutTime),
                          segment.startTime, cutTime),
                  Segment(ms + 1, AfterBuffer(segment, cutTime),
                          cutTime, segment.endTime)>>
             \o SubSeq(segments, p + 1, Len(segments))

\* handleCutAtPosition, and the click reaching the outer div (deselect)
CutterCutAtPosition ==
    /\ tool = "cutter"
    /\ audioBuffer # NoBuffer /\ Len(CutterSegments) > 0
    /\ selectedSegmentId' = 0
    /\ LET cutTime == currentTime
           p == CutPosition(CutterSegments, cutTime)
       IN  \/ /\ cutTime <= Eps \/ cutTime >= duration - Eps
              /\ lastOp' = Op("cut", 0, CutterSegments, 0, p, "none", cutTime,
                              FALSE, "Position de decoupe invalide", FALSE)
              /\ UNCHANGED <<hookVars, audioBuffer, now, edits>>
           \/ /\ ~(cutTime <= Eps \/ cutTime >= duration - Eps)
              /\ p = 0
              /\ lastOp' = Op("cut", 0, CutterSegments, 0, p, "none", cutTime,
                              FALSE, "", FALSE)
              /\ UNCHANGED <<hookVars, audioBuffer, now, edits>>
           \/ /\ ~(cutTime <= Eps \/ cutTime >= duration - Eps)
              /\ p > 0
              /\ edits < MaxEdits
              /\ \E d \in Elapsed :
                    /\ now' = now + d
                    /\ CutterPush(CutterCutSegments(CutterSegments, cutTime, now + d))
              /\ lastOp' = Op("cut", 0, CutterSegments, 0, p, "none", cutTime,
                              TRUE, "", FALSE)
              /\ UNCHANGED maxHistory
    /\ UNCHANGED <<closure, player, tool, nextVal, pushRun, currentTime,
                   localTime, loads>>

\* faulty variant of handleDeleteSegment: the test for an empty result is missing
CutterDeleteSegmentUnguarded ==
    /\ tool = "cutter"
    /\ selectedSegmentId # 0
    /\ selectedSegmentId' = 0
    /\ edits < MaxEdits
    /\ CutterPush(Recalculate(FilterOut(CutterSegments, selectedSegmentId)))
    /\ lastOp' = Op("delete", 0, CutterSegments, selectedSegmentId, 0, "none", 0,
                    TRUE, "", FALSE)
    /\ UNCHANGED <<closure, player, tool, maxHistory, nextVal, pushRun, currentTime,
                   localTime, now, loads>>

\* handleDeleteSegment(selectedSegmentId), from the delete button
CutterDeleteSegment ==
    /\ tool = "cutter"
    /\ selectedSegmentId # 0
    /\ selectedSegmentId' = 0
    /\ LET segmentId == selectedSegmentId
           newSegments == FilterOut(CutterSegments, segmentId)
       IN  \/ /\ Len(newSegments) = 0
              /\ lastOp' = Op("delete", 0, CutterSegments, segmentId, 0, "none", 0,
                              FALSE, "Vous devez garder au moins un segment", FALSE)
              /\ UNCHANGED <<hookVars, audioBuffer, edits>>
           \/ /\ Len(newSegments) > 0
              /\ edits < MaxEdits
              /\ CutterPush(Recalculate(newSegments))
              /\ lastOp' = Op("delete", 0, CutterSegments, segmentId, 0, "none", 0,
                              TRUE, "", FALSE)
              /\ UNCHANGED maxHistory
    /\ UNCHANGED <<closure, player, tool, nextVal, pushRun, currentTime,
                   localTime, now, loads>>

\* the start-edge branch of the resize effect: the end is copied, the start
\* follows from the trimmed buffer
ResizeStart(segment, newTime) ==
    LET maxStart == segment.endTime - MinDuration
        clampedTime == Max(0, Min(newTime, maxStart))
        trimAmount == clampedTime - segment.startTime
        newBuffer == TrimAudioBuffer(segment.buffer, trimAmount,
                                     Duration(segment.buffer))
    IN  IF clampedTime - segment.startTime > Eps \/ segment.startTime - clampedTime > Eps
        THEN [segment EXCEPT !.buffer = newBuffer,
                             !.startTime = segment.endTime - Duration(newBuffer),
                             !.endTime = segment.endTime]
        ELSE segment

\* faulty variant of the end-edge branch: the end is kept and the start moved
ResizeEndKeepEnd(segment, newTime, trackDuration) ==
    LET minEnd == segment.startTime + MinDuration
        clampedTime == Max(minEnd, Min(newTime, trackDuration))
        newDuration == clampedTime - segment.startTime
        newBuffer == TrimAudioBuffer(segment.buffer, 0, newDuration)
    IN  IF clampedTime - segment.endTime > Eps \/ segment.endTime - clampedTime > Eps
        THEN [segment EXCEPT !.buffer = newBuffer,
                             !.startTime = segment.endTime - Duration(newBuffer),
                             !.endTime = segment.endTime]
        ELSE segment

\* the end-edge branch: the start is copied, the end follows from the buffer
ResizeEnd(segment, newTime, trackDuration) ==
    LET minEnd == segment.startTime + MinDuration
        clampedTime == Max(minEnd, Min(newTime, trackDuration))
        newDuration == clampedTime - segment.startTime
        newBuffer == TrimAudioBuffer(segment.buffer, 0, newDuration)
    IN  IF clampedTime - segment.endTime > Eps \/ segment.endTime - clampedTime > Eps
        THEN [segment EXCEPT !.buffer = newBuffer,
                             !.startTime = segment.startTime,
                             !.endTime = segment.startTime + Duration(newBuffer)]
        ELSE segment

\* newSegments of handleMouseMove: the list with the dragged segment replaced
ResizedSegments(segments, segmentIndex, edge, newTime, trackDuration) ==
    [segments EXCEPT ![segmentIndex + 1] =
        IF edge = "start" THEN ResizeStart(@, newTime)
        ELSE ResizeEnd(@, newTime, trackDuration)]

\* A resize drag: onMouseDown of a segment's handle sets resizingSegment, then
\* handleMouseMove of the resize effect runs with the pointer at newTime and
\* ends in push({segments: newSegments, zoom}); handleMouseUp clears
\* resizingSegment.  The handle belongs to a rendered segment, so findIndex
\* finds it.
CutterResizeMouseMove(segmentId, edge, newTime) ==
    /\ tool = "cutter"
    /\ audioBuffer # NoBuffer
    /\ edits < MaxEdits
    /\ LET segmentIndex == FindIndex(CutterSegments, segmentId)
       IN  /\ segmentIndex # -1
           /\ CutterPush(ResizedSegments(CutterSegments, segmentIndex,
                                         edge, newTime, duration))
           /\ lastOp' = Op("resize", 0, CutterSegments, segmentId,
                           segmentIndex + 1, edge, newTime, TRUE, "", FALSE)
    /\ UNCHANGED <<closure, player, tool, maxHistory, nextVal, pushRun, selectedSegmentId,
                   currentTime, localTime, now, loads>>

\* whether the resize branch of this edge reaches trimAudioBuffer
ResizeTrims(segment, edge, newTime, trackDuration) ==
    LET clampedTime ==
            IF edge = "start"
            THEN Max(0, Min(newTime, segment.endTime - MinDuration))
            ELSE Max(segment.startTime + MinDuration, Min(newTime, trackDuration))
        edgeTime == IF edge = "start" THEN segment.startTime ELSE segment.endTime
    IN  clampedTime - edgeTime > Eps \/ edgeTime - clampedTime > Eps

\* handleCutAtPosition when one of its trimAudioBuffer calls throws: the catch
\* block alerts and nothing is pushed
CutterCutThrows ==
    /\ tool = "cutter"
    /\ edits < MaxThrowEdits
    /\ audioBuffer # NoBuffer /\ Len(CutterSegments) > 0
    /\ ~(currentTime <= Eps \/ currentTime >= duration - Eps)
    /\ CutPosition(CutterSegments, currentTime) > 0
    /\ selectedSegmentId' = 0
    /\ lastOp' = Op("cut", 0, CutterSegments, 0,
                    CutPosition(CutterSegments, currentTime), "none", currentTime,
                    FALSE, "Erreur lors de la decoupe", TRUE)
    /\ UNCHANGED <<closure, player, tool, hookVars, nextVal, pushRun, audioBuffer, currentTime,
                   localTime, now, loads, edits>>

\* handleDeleteSegment when mergeAudioBuffers throws: the catch block alerts,
\* before setAudioBuffer and push are reached
CutterDeleteThrows ==
    /\ tool = "cutter"
    /\ edits < MaxThrowEdits
    /\ selectedSegmentId # 0
    /\ Len(FilterOut(CutterSegments, selectedSegmentId)) > 0
    /\ selectedSegmentId' = 0
    /\ lastOp' = Op("delete", 0, CutterSegments, selectedSegmentId, 0, "none", 0,
                    FALSE, "Erreur lors de la suppression", TRUE)
    /\ UNCHANGED <<closure, player, tool, hookVars, nextVal, pushRun, audioBuffer, currentTime,
                   localTime, now, loads, edits>>

\* a resize drag whose trimAudioBuffer throws: handleMouseMove catches and
\* does not reach push
CutterResizeThrows(segmentId, edge, newTime) ==
    /\ tool = "cutter"
    /\ edits < MaxThrowEdits
    /\ audioBuffer # NoBuffer
    /\ LET segmentIndex == FindIndex(CutterSegments, segmentId)
       IN  /\ segmentIndex # -1
           /\ ResizeTrims(CutterSegments[segmentIndex + 1], edge, newTime, duration)
           /\ lastOp' = Op("resize", 0, CutterSegments, segmentId,
                           segmentIndex + 1, edge, newTime, FALSE, "", TRUE)
    /\ UNCHANGED <<closure, player, tool, hookVars, nextVal, pushRun, audioBuffer,
                   selectedSegmentId, currentTime, localTime, now, loads, edits>>

\* undo, by Ctrl+Z or by the button (whose click also deselects)
CutterUndo(byKey) ==
    /\ tool = "cutter"
    /\ byKey \/ (audioBuffer # NoBuffer /\ canUndo)
    /\ currentIndex' = HUndo(history, currentIndex)
    /\ audioBuffer' = UpdateAudioBuffer(
                        Current(history, currentIndex').segments, audioBuffer)
    /\ selectedSegmentId' = IF byKey THEN selectedSegmentId ELSE 0
    /\ lastOp' = NoOp
    /\ UNCHANGED <<closure, player, tool, history, maxHistory, nextVal, pushRun, currentTime, localTime, now, loads, edits>>

\* redo, by Ctrl+Y or by the button
CutterRedo(byKey) ==
    /\ tool = "cutter"
    /\ byKey \/ (audioBuffer # NoBuffer /\ canRedo)
    /\ currentIndex' = HRedo(history, currentIndex)
    /\ audioBuffer' = UpdateAudioBuffer(
                        Current(history, currentIndex').segments, audioBuffer)
    /\ selectedSegmentId' = IF byKey THEN selectedSegmentId ELSE 0
    /\ lastOp' = NoOp
    /\ UNCHANGED <<closure, player, tool, history, maxHistory, nextVal, pushRun, currentTime, localTime, now, loads, edits>>

NextCutter ==
    \/ CutterFileSelect(FileA)
    \/ \E clickTime \in ClickTimes : CutterCanvasClick(clickTime)
    \/ tool = "cutter" /\ \E i \in 1..Len(CutterSegments) :
          CutterSegmentClick(CutterSegments[i].id)
    \/ CutterCutAtPosition
    \/ CutterDeleteSegment
    \/ tool = "cutter" /\ \E i \in 1..Len(CutterSegments),
          edge \in {"start", "end"}, newTime \in DragTimes :
          CutterResizeMouseMove(CutterSegments[i].id, edge, newTime)
    \/ CutterCutThrows
    \/ CutterDeleteThrows
    \/ tool = "cutter" /\ \E i \in 1..Len(CutterSegments),
          edge \in {"start", "end"}, newTime \in DragTimes :
          CutterResizeThrows(CutterSegments[i].id, edge, newTime)
    \/ \E byKey \in BOOLEAN : CutterUndo(byKey)
    \/ \E byKey \in BOOLEAN : CutterRedo(byKey)

SpecCutter == InitCutter /\ [][NextCutter]_vars

\* The file input is rendered until a load has set audioBuffer.  A second file
\* chosen while the first was still being decoded finishes its
\* handleFileSelect later, over whatever the first file has become
CutterSecondFileLoaded(buffer) ==
    /\ tool = "cutter"
    /\ audioBuffer # NoBuffer
    /\ loads = 1
    /\ LET initialSegment == Segment(1, buffer, 0, Duration(buffer))
           r == HReset([segments |-> <<initialSegment>>, zoom |-> 1])
       IN  /\ history' = r.history
           /\ currentIndex' = r.currentIndex
           /\ audioBuffer' = UpdateAudioBuffer(<<initialSegment>>, buffer)
    /\ loads' = loads + 1
    /\ lastOp' = Op("load", 0, CutterSegments, 0, 0, "none", 0, TRUE, "", FALSE)
    /\ UNCHANGED <<closure, player, tool, maxHistory, nextVal, pushRun, selectedSegmentId,
                   currentTime, localTime, now, edits>>

NextReload == NextCutter \/ CutterSecondFileLoaded(FileB)

SpecReload == InitCutter /\ [][NextReload]_vars

-----------------------------------------------------------------------------
(* AudioJoiner and its TrackTimeline components *)

\* const tracks = current
JoinerTracks == Current(history, currentIndex)

\* tracks.findIndex(t => t.id === trackId): 0-based, -1 when absent
TrackIndex(tracks, trackId) ==
    IF \E i \in 1..Len(tracks) : tracks[i].id = trackId
    THEN (CHOOSE i \in 1..Len(tracks) :
            /\ tracks[i].id = trackId
            /\ \A j \in 1..(i - 1) : tracks[j].id # trackId) - 1
    ELSE -1

\* faulty variant: the filter keeps no track
FilterTracksKeepsNone(tracks, trackId) == <<>>

\* tracks.filter(t => t.id !== trackId)
RECURSIVE FilterTracks(_, _)
FilterTracks(tracks, trackId) ==
    IF tracks = <<>> THEN <<>>
    ELSE IF Head(tracks).id = trackId THEN FilterTracks(Tail(tracks), trackId)
    ELSE <<Head(tracks)>> \o FilterTracks(Tail(tracks), trackId)

\* mergeTracks, the effect on [tracks]: every track's segments merged, then the
\* tracks' merged buffers merged; left alone when there is no track, and when
\* a merge throws
MergeTracks(tracks, old) ==
    IF Len(tracks) = 0 THEN old
    ELSE IF \E i \in 1..Len(tracks) : MergeThrows(Buffers(tracks[i].segments)) THEN old
    ELSE MergeAudioBuffers(
            [i \in 1..Len(tracks) |-> MergeAudioBuffers(Buffers(tracks[i].segments))])

\* a TrackTimeline is keyed by its track id: it keeps its localTime while its
\* track is in the list, and mounts with localTime = globalTime
Remount(tracks, times) ==
    [id \in {tracks[i].id : i \in 1..Len(tracks)} |->
        IF id \in DOMAIN times THEN times[id] ELSE currentTime]

\* push(newTracks), and what follows the re-render with the new current state
JoinerPush(newTracks) ==
    LET r == HPush(history, currentIndex, newTracks, maxHistory)
    IN  /\ history' = r.history
        /\ currentIndex' = r.currentIndex
        /\ audioBuffer' = MergeTracks(newTracks, audioBuffer)
        /\ localTime' = Remount(newTracks, localTime)
        /\ edits' = edits + 1

InitJoiner ==
    /\ tool = "joiner"
    /\ maxHistory = DefaultMaxHistory
    /\ history = << <<>> >>
    /\ currentIndex = 0
    /\ nextVal = 0
    /\ pushRun = 0
    /\ ToolIdle
    /\ lastOp = NoOp

\* the track handleFilesSelect builds for the n-th decoded file: a random
\* track id, and a first segment whose id no cut can produce
NewTrack(buffer, n) ==
    [id |-> n, buffer |-> buffer, duration |-> Duration(buffer),
     segments |-> <<Segment(-n, buffer, 0, Duration(buffer))>>,
     selectedSegmentId |-> 0]

\* handleFilesSelect with files that all decode
JoinerFilesSelect(files) ==
    /\ tool = "joiner"
    /\ edits < MaxJoinerPushes
    /\ loads + Len(files) <= MaxFiles
    /\ LET newTracks == [k \in 1..Len(files) |-> NewTrack(files[k], loads + k)]
           r == HPush(history, currentIndex, JoinerTracks \o newTracks, maxHistory)
       IN  /\ history' = r.history
           /\ currentIndex' = r.currentIndex
           /\ audioBuffer' = MergeTracks(JoinerTracks \o newTracks, audioBuffer)
           /\ localTime' = Remount(JoinerTracks \o newTracks, localTime)
           /\ edits' = edits + 1
    /\ loads' = loads + Len(files)
    /\ lastOp' = Op("load", 0, JoinerTracks, 0, 0, "none", 0, TRUE, "", FALSE)
    /\ UNCHANGED <<closure, player, tool, maxHistory, nextVal, pushRun, selectedSegmentId,
                   currentTime, now>>

\* handleTimelineClick of the track's TrackTimeline
JoinerTimelineClick(trackId, clickTime) ==
    /\ tool = "joiner"
    /\ TrackIndex(JoinerTracks, trackId) # -1
    /\ LET track == JoinerTracks[TrackIndex(JoinerTracks, trackId) + 1]
       IN  /\ clickTime <= Duration(track.buffer)
           /\ localTime' = [localTime EXCEPT ![trackId] =
                                Max(0, Min(clickTime, Duration(track.buffer)))]
    /\ lastOp' = NoOp
    /\ UNCHANGED <<closure, player, tool, hookVars, nextVal, pushRun, audioBuffer,
                   selectedSegmentId, currentTime, now, loads, edits>>

\* the loop of handleCutTrack: every segment is placed at the position
\* accumulated so far; the first one holding cutTime becomes two
JoinerCutSegments(segments, cutTime, ms) ==
    LET p == CutPosition(segments, cutTime)
        segment == segments[p]
    IN  IF p = 0 THEN Recalculate(segments)
        ELSE Recalculate(
                SubSeq(segments, 1, p - 1)
                \o <<Segment(ms, BeforeBuffer(segment, cutTime), 0, 0),
                     Segment(ms + 1, AfterBuffer(segment, cutTime), 0, 0)>>
                \o SubSeq(segments, p + 1, Len(segments)))

\* handleCutTrack(track.id, localTime), from the track's cut button
JoinerCutTrack(trackId) ==
    /\ tool = "joiner"
    /\ TrackIndex(JoinerTracks, trackId) # -1
    /\ LET trackIndex == TrackIndex(JoinerTracks, trackId)
           track == JoinerTracks[trackIndex + 1]
           cutTime == localTime[trackId]
           p == CutPosition(track.segments, cutTime)
       IN  \/ /\ p = 0
              /\ lastOp' = Op("cut", trackIndex + 1, track.segments, 0, p, "none",
                              cutTime, FALSE, "", FALSE)
              /\ UNCHANGED <<hookVars, audioBuffer, localTime, now, edits>>
           \/ /\ p > 0
              /\ edits < MaxJoinerPushes
              /\ \E d \in Elapsed :
                    /\ now' = now + d
                    /\ JoinerPush([JoinerTracks EXCEPT ![trackIndex + 1] =
                          [track EXCEPT !.segments =
                              JoinerCutSegments(track.segments, cutTime, now + d)]])
              /\ lastOp' = Op("cut", trackIndex + 1, track.segments, 0, p, "none",
                              cutTime, TRUE, "", FALSE)
              /\ UNCHANGED maxHistory
    /\ UNCHANGED <<closure, player, tool, nextVal, pushRun, selectedSegmentId, currentTime, loads>>

\* faulty variant: a track whose last segment is deleted stays in the list
JoinerDeleteSegmentKeepsTrack(trackId) ==
    /\ tool = "joiner"
    /\ TrackIndex(JoinerTracks, trackId) # -1
    /\ edits < MaxJoinerPushes
    /\ LET trackIndex == TrackIndex(JoinerTracks, trackId)
           track == JoinerTracks[trackIndex + 1]
           segmentId == track.selectedSegmentId
           newSegments == FilterOut(track.segments, segmentId)
       IN  /\ segmentId # 0
           /\ JoinerPush([JoinerTracks EXCEPT ![trackIndex + 1] =
                 [track EXCEPT !.segments = Recalculate(newSegments),
                               !.selectedSegmentId = 0]])
           /\ lastOp' = Op("delete", trackIndex + 1, track.segments, segmentId, 0,
                           "none", 0, TRUE, "", FALSE)
    /\ UNCHANGED <<closure, player, tool, maxHistory, nextVal, pushRun, selectedSegmentId,
                   currentTime, now, loads>>

\* handleDeleteSegment(track.id, track.selectedSegmentId)
JoinerDeleteSegment(trackId) ==
    /\ tool = "joiner"
    /\ TrackIndex(JoinerTracks, trackId) # -1
    /\ edits < MaxJoinerPushes
    /\ LET trackIndex == TrackIndex(JoinerTracks, trackId)
           track == JoinerTracks[trackIndex + 1]
           segmentId == track.selectedSegmentId
           newSegments == FilterOut(track.segments, segmentId)
           mergedTrackBuffer == MergeAudioBuffers(Buffers(newSegments))
       IN  /\ segmentId # 0
           /\ \/ /\ Len(newSegments) = 0
                 /\ JoinerPush(FilterTracks(JoinerTracks, trackId))
              \/ /\ Len(newSegments) > 0
                 /\ JoinerPush([JoinerTracks EXCEPT ![trackIndex + 1] =
                       [track EXCEPT !.buffer = mergedTrackBuffer,
                                     !.duration = Duration(mergedTrackBuffer),
                                     !.segments = Recalculate(newSegments),
                                     !.selectedSegmentId = 0]])
           /\ lastOp' = Op("delete", trackIndex + 1, track.segments, segmentId, 0,
                           "none", 0, TRUE, "", FALSE)
    /\ UNCHANGED <<closure, player, tool, maxHistory, nextVal, pushRun, selectedSegmentId,
                   currentTime, now, loads>>

\* handleResizeSegment(track.id, segmentId, newSegments): the resized segment
\* is put at its index in the track's list, the buffers are merged and every
\* position is recalculated
JoinerResizedTrack(track, segmentId, newSegments) ==
    LET resizedSegmentIndex == FindIndex(newSegments, segmentId)
        updatedSegments == [track.segments EXCEPT ![resizedSegmentIndex + 1] =
                                newSegments[resizedSegmentIndex + 1]]
        mergedTrackBuffer == MergeAudioBuffers(Buffers(updatedSegments))
    IN  [track EXCEPT !.buffer = mergedTrackBuffer,
                      !.duration = Duration(mergedTrackBuffer),
                      !.segments = Recalculate(updatedSegments)]

\* A resize drag in a TrackTimeline: onMouseDown of a segment's handle, then
\* handleMouseMove of the resize effect with the pointer at newTime, which
\* ends in onResizeSegment(id, newSegments), i.e. handleResizeSegment
JoinerResizeMouseMove(trackId, segmentId, edge, newTime) ==
    /\ tool = "joiner"
    /\ TrackIndex(JoinerTracks, trackId) # -1
    /\ edits < MaxJoinerPushes
    /\ LET trackIndex == TrackIndex(JoinerTracks, trackId)
           track == JoinerTracks[trackIndex + 1]
           segmentIndex == FindIndex(track.segments, segmentId)
           newSegments == ResizedSegments(track.segments, segmentIndex, edge,
                                          newTime, Duration(track.buffer))
       IN  /\ segmentIndex # -1
           /\ JoinerPush([JoinerTracks EXCEPT ![trackIndex + 1] =
                            JoinerResizedTrack(track, segmentId, newSegments)])
           /\ lastOp' = Op("resize", trackIndex + 1, track.segments, segmentId,
                           segmentIndex + 1, edge, newTime, TRUE, "", FALSE)
    /\ UNCHANGED <<closure, player, tool, maxHistory, nextVal, pushRun, selectedSegmentId,
                   currentTime, now, loads>>

\* toggleSegmentSelection: the clicked track toggles, the others deselect
ToggledTracks(tracks, trackId, segmentId) ==
    [i \in 1..Len(tracks) |->
        IF tracks[i].id = trackId
        THEN [tracks[i] EXCEPT !.selectedSegmentId =
                IF tracks[i].selectedSegmentId = segmentId THEN 0 ELSE segmentId]
        ELSE [tracks[i] EXCEPT !.selectedSegmentId = 0]]

JoinerToggleSegmentSelection(trackId, segmentId) ==
    /\ tool = "joiner"
    /\ edits < MaxJoinerPushes
    /\ JoinerPush(ToggledTracks(JoinerTracks, trackId, segmentId))
    /\ lastOp' = Op("select", TrackIndex(JoinerTracks, trackId) + 1, JoinerTracks,
                    segmentId, 0, "none", 0, TRUE, "", FALSE)
    /\ UNCHANGED <<closure, player, tool, maxHistory, nextVal, pushRun, selectedSegmentId,
                   currentTime, now, loads>>

\* onClick of the component's root element, reached by every click that no
\* inner element stops: all tracks are deselected
JoinerOutsideClick ==
    /\ tool = "joiner"
    /\ edits < MaxJoinerPushes
    /\ JoinerPush([i \in 1..Len(JoinerTracks) |->
                      [JoinerTracks[i] EXCEPT !.selectedSegmentId = 0]])
    /\ lastOp' = Op("deselect", 0, JoinerTracks, 0, 0, "none", 0, TRUE, "", FALSE)
    /\ UNCHANGED <<closure, player, tool, maxHistory, nextVal, pushRun, selectedSegmentId,
                   currentTime, now, loads>>

\* faulty variant: the test of cutMade is missing, so the list rebuilt by the
\* loop is pushed although the trim threw
JoinerCutThrowsCommits(trackId) ==
    /\ tool = "joiner"
    /\ edits < MaxThrowPushes
    /\ TrackIndex(JoinerTracks, trackId) # -1
    /\ LET trackIndex == TrackIndex(JoinerTracks, trackId)
           track == JoinerTracks[trackIndex + 1]
           cutTime == localTime[trackId]
       IN  /\ CutPosition(track.segments, cutTime) > 0
           /\ JoinerPush([JoinerTracks EXCEPT ![trackIndex + 1] =
                 [track EXCEPT !.segments = Recalculate(track.segments)]])
           /\ lastOp' = Op("cut", trackIndex + 1, track.segments, 0,
                           CutPosition(track.segments, cutTime), "none", cutTime,
                           FALSE, "", TRUE)
    /\ UNCHANGED <<closure, player, tool, maxHistory, nextVal, pushRun, selectedSegmentId,
                   currentTime, now, loads>>

\* handleCutTrack when a trimAudioBuffer throws: the inner catch keeps the
\* segment, cutMade stays false and nothing is pushed
JoinerCutThrows(trackId) ==
    /\ tool = "joiner"
    /\ edits < MaxThrowPushes
    /\ TrackIndex(JoinerTracks, trackId) # -1
    /\ LET trackIndex == TrackIndex(JoinerTracks, trackId)
           track == JoinerTracks[trackIndex + 1]
           cutTime == localTime[trackId]
       IN  /\ CutPosition(track.segments, cutTime) > 0
           /\ lastOp' = Op("cut", trackIndex + 1, track.segments, 0,
                           CutPosition(track.segments, cutTime), "none", cutTime,
                           FALSE, "", TRUE)
    /\ UNCHANGED <<closure, player, tool, hookVars, nextVal, pushRun, toolVars>>

\* handleDeleteSegment when mergeAudioBuffers throws: the catch block alerts
JoinerDeleteThrows(trackId) ==
    /\ tool = "joiner"
    /\ edits < MaxJoinerPushes
    /\ TrackIndex(JoinerTracks, trackId) # -1
    /\ LET trackIndex == TrackIndex(JoinerTracks, trackId)
           track == JoinerTracks[trackIndex + 1]
           segmentId == track.selectedSegmentId
       IN  /\ segmentId # 0
           /\ Len(FilterOut(track.segments, segmentId)) > 0
           /\ lastOp' = Op("delete", trackIndex + 1, track.segments, segmentId, 0,
                           "none", 0, FALSE, "Erreur lors de la suppression", TRUE)
    /\ UNCHANGED <<closure, player, tool, hookVars, nextVal, pushRun, toolVars>>

\* a resize drag in which the TrackTimeline's trimAudioBuffer or
\* handleResizeSegment's mergeAudioBuffers throws: both are caught before push
JoinerResizeThrows(trackId, segmentId, edge, newTime) ==
    /\ tool = "joiner"
    /\ edits < MaxThrowPushes
    /\ TrackIndex(JoinerTracks, trackId) # -1
    /\ LET trackIndex == TrackIndex(JoinerTracks, trackId)
           track == JoinerTracks[trackIndex + 1]
           segmentIndex == FindIndex(track.segments, segmentId)
       IN  /\ segmentIndex # -1
           /\ lastOp' = Op("resize", trackIndex + 1, track.segments, segmentId,
                           segmentIndex + 1, edge, newTime, FALSE, "", TRUE)
    /\ UNCHANGED <<closure, player, tool, hookVars, nextVal, pushRun, toolVars>>

\* undo, by Ctrl+Z or by the button (which stops the click)
JoinerUndo ==
    /\ tool = "joiner"
    /\ currentIndex' = HUndo(history, currentIndex)
    /\ audioBuffer' = MergeTracks(Current(history, currentIndex'), audioBuffer)
    /\ localTime' = Remount(Current(history, currentIndex'), localTime)
    /\ lastOp' = NoOp
    /\ UNCHANGED <<closure, player, tool, history, maxHistory, nextVal, pushRun,
                   selectedSegmentId, currentTime, now, loads, edits>>

\* redo, by Ctrl+Y or by the button
JoinerRedo ==
    /\ tool = "joiner"
    /\ currentIndex' = HRedo(history, currentIndex)
    /\ audioBuffer' = MergeTracks(Current(history, currentIndex'), audioBuffer)
    /\ localTime' = Remount(Current(history, currentIndex'), localTime)
    /\ lastOp' = NoOp
    /\ UNCHANGED <<closure, player, tool, history, maxHistory, nextVal, pushRun,
                   selectedSegmentId, currentTime, now, loads, edits>>

NextJoiner ==
    \/ \E files \in JoinerFiles : JoinerFilesSelect(files)
    \/ tool = "joiner" /\ \E i \in 1..Len(JoinerTracks), clickTime \in ClickTimes :
          JoinerTimelineClick(JoinerTracks[i].id, clickTime)
    \/ tool = "joiner" /\ \E i \in 1..Len(JoinerTracks) : JoinerCutTrack(JoinerTracks[i].id)
    \/ tool = "joiner" /\ \E i \in 1..Len(JoinerTracks) : JoinerDeleteSegment(JoinerTracks[i].id)
    \/ tool = "joiner" /\ \E i \in 1..Len(JoinerTracks) :
          \E k \in 1..Len(JoinerTracks[i].segments), edge \in {"start", "end"},
             newTime \in DragTimes :
             JoinerResizeMouseMove(JoinerTracks[i].id,
                                   JoinerTracks[i].segments[k].id, edge, newTime)
    \/ tool = "joiner" /\ \E i \in 1..Len(JoinerTracks) :
          \E k \in 1..Len(JoinerTracks[i].segments) :
             JoinerToggleSegmentSelection(JoinerTracks[i].id,
                                          JoinerTracks[i].segments[k].id)
    \/ tool = "joiner" /\ \E i \in 1..Len(JoinerTracks) :
          JoinerCutThrows(JoinerTracks[i].id)
    \/ tool = "joiner" /\ \E i \in 1..Len(JoinerTracks) :
          JoinerDeleteThrows(JoinerTracks[i].id)
    \/ tool = "joiner" /\ \E i \in 1..Len(JoinerTracks) :
          \E k \in 1..Len(JoinerTracks[i].segments), edge \in {"start", "end"},
             newTime \in DragTimes :
             JoinerResizeThrows(JoinerTracks[i].id,
                                JoinerTracks[i].segments[k].id, edge, newTime)
    \/ JoinerOutsideClick
    \/ JoinerUndo
    \/ JoinerRedo

SpecJoiner == InitJoiner /\ [][NextJoiner]_vars

\* the application with one of the two tools mounted
Init == InitCutter \/ InitJoiner

Next == NextCutter \/ NextJoiner

Spec == Init /\ [][Next]_vars

-----------------------------------------------------------------------------
(* AudioJoiner between two renders.  A handler is a closure of the render that
   created it: it reads that render's tracks, and its push is the useCallback
   of that render, which slices the latest history at that render's
   currentIndex.  A second handler that runs before the component has rendered
   again (a second mousemove before the resize effect has re-registered its
   listener, a second click while handleFilesSelect or a trim is awaited) is
   still a closure of the old render. *)

MaxStaleEdits == 3

StaleFiles == <<FileA, FileB>>

\* what the handlers of a render of the present state close over
Rendered == [current |-> JoinerTracks, currentIndex |-> currentIndex]

\* push of the closure: setHistory(prev => prev.slice(0, currentIndex + 1) ...)
\* with prev the latest history and currentIndex the closure's
StalePush(newTracks) ==
    LET r == HPush(history, closure.currentIndex, newTracks, maxHistory)
    IN  /\ history' = r.history
        /\ currentIndex' = r.currentIndex
        /\ edits' = edits + 1

InitStale ==
    /\ tool = "stale"
    /\ maxHistory = DefaultMaxHistory
    /\ history = << <<>> >>
    /\ currentIndex = 0
    /\ nextVal = 0
    /\ pushRun = 0
    /\ player = NoPlayer
    /\ closure = [current |-> <<>>, currentIndex |-> 0]
    /\ audioBuffer = NoBuffer
    /\ selectedSegmentId = 0
    /\ currentTime = 0
    /\ localTime = <<>>
    /\ now = 1000
    /\ loads = 0
    /\ edits = 0
    /\ lastOp = NoOp

\* the component renders with the state the hook holds: new handlers, the
\* mergeTracks effect, and the TrackTimelines of the tracks
StaleRender ==
    /\ tool = "stale"
    /\ closure # Rendered
    /\ closure' = Rendered
    /\ audioBuffer' = MergeTracks(JoinerTracks, audioBuffer)
    /\ localTime' = Remount(JoinerTracks, localTime)
    /\ UNCHANGED <<player, tool, hookVars, nextVal, pushRun, selectedSegmentId,
                   currentTime, now, loads, edits, lastOp>>

\* handleFilesSelect with files that all decode
StaleFilesSelect ==
    /\ tool = "stale"
    /\ loads = 0
    /\ LET newTracks == [k \in 1..Len(StaleFiles) |-> NewTrack(StaleFiles[k], k)]
       IN  StalePush(closure.current \o newTracks)
    /\ loads' = Len(StaleFiles)
    /\ lastOp' = Op("load", 0, closure.current, 0, 0, "none", 0, TRUE, "", FALSE)
    /\ UNCHANGED <<closure, player, tool, maxHistory, nextVal, pushRun, audioBuffer,
                   selectedSegmentId, currentTime, localTime, now>>

\* handleTimelineClick of a rendered TrackTimeline: setLocalTime, and the
\* render it schedules
StaleTimelineClick(trackId, clickTime) ==
    /\ tool = "stale"
    /\ closure = Rendered
    /\ TrackIndex(closure.current, trackId) # -1
    /\ LET track == closure.current[TrackIndex(closure.current, trackId) + 1]
       IN  /\ clickTime <= Duration(track.buffer)
           /\ localTime' = [localTime EXCEPT ![trackId] =
                                Max(0, Min(clickTime, Duration(track.buffer)))]
    /\ UNCHANGED <<closure, player, tool, hookVars, nextVal, pushRun, audioBuffer,
                   selectedSegmentId, currentTime, now, loads, edits, lastOp>>

\* handleCutTrack(track.id, localTime) of the closure
StaleCutTrack(trackId) ==
    /\ tool = "stale"
    /\ TrackIndex(closure.current, trackId) # -1
    /\ LET tracks == closure.current
           trackIndex == TrackIndex(tracks, trackId)
           track == tracks[trackIndex + 1]
           cutTime == localTime[trackId]
           p == CutPosition(track.segments, cutTime)
       IN  \/ /\ p = 0
              /\ lastOp' = Op("cut", trackIndex + 1, track.segments, 0, p, "none",
                              cutTime, FALSE, "", FALSE)
              /\ UNCHANGED <<hookVars, now, edits>>
           \/ /\ p > 0
              /\ edits < MaxStaleEdits
              /\ \E d \in Elapsed :
                    /\ now' = now + d
                    /\ StalePush([tracks EXCEPT ![trackIndex + 1] =
                          [track EXCEPT !.segments =
                              JoinerCutSegments(track.segments, cutTime, now + d)]])
              /\ lastOp' = Op("cut", trackIndex + 1, track.segments, 0, p, "none",
                              cutTime, TRUE, "", FALSE)
              /\ UNCHANGED maxHistory
    /\ UNCHANGED <<closure, player, tool, nextVal, pushRun, audioBuffer,
                   selectedSegmentId, currentTime, localTime, loads>>

\* handleDeleteSegment(track.id, track.selectedSegmentId) of the closure
StaleDeleteSegment(trackId) ==
    /\ tool = "stale"
    /\ TrackIndex(closure.current, trackId) # -1
    /\ edits < MaxStaleEdits
    /\ LET tracks == closure.current
           trackIndex == TrackIndex(tracks, trackId)
           track == tracks[trackIndex + 1]
           segmentId == track.selectedSegmentId
           newSegments == FilterOut(track.segments, segmentId)
           mergedTrackBuffer == MergeAudioBuffers(Buffers(newSegments))
       IN  /\ segmentId # 0
           /\ \/ /\ Len(newSegments) = 0
                 /\ StalePush(FilterTracks(tracks, trackId))
              \/ /\ Len(newSegments) > 0
                 /\ StalePush([tracks EXCEPT ![trackIndex + 1] =
                       [track EXCEPT !.buffer = mergedTrackBuffer,
                                     !.duration = Duration(mergedTrackBuffer),
                                     !.segments = Recalculate(newSegments),
                                     !.selectedSegmentId = 0]])
           /\ lastOp' = Op("delete", trackIndex + 1, track.segments, segmentId, 0,
                           "none", 0, TRUE, "", FALSE)
    /\ UNCHANGED <<closure, player, tool, maxHistory, nextVal, pushRun, audioBuffer,
                   selectedSegmentId, currentTime, localTime, now, loads>>

\* handleMouseMove of the resize effect and handleResizeSegment, both of the
\* closure
StaleResizeMouseMove(trackId, segmentId, edge, newTime) ==
    /\ tool = "stale"
    /\ TrackIndex(closure.current, trackId) # -1
    /\ edits < MaxStaleEdits
    /\ LET tracks == closure.current
           trackIndex == TrackIndex(tracks, trackId)
           track == tracks[trackIndex + 1]
           segmentIndex == FindIndex(track.segments, segmentId)
           newSegments == ResizedSegments(track.segments, segmentIndex, edge,
                                          newTime, Duration(track.buffer))
       IN  /\ segmentIndex # -1
           /\ StalePush([tracks EXCEPT ![trackIndex + 1] =
                            JoinerResizedTrack(track, segmentId, newSegments)])
           /\ lastOp' = Op("resize", trackIndex + 1, track.segments, segmentId,
                           segmentIndex + 1, edge, newTime, TRUE, "", FALSE)
    /\ UNCHANGED <<closure, player, tool, maxHistory, nextVal, pushRun, audioBuffer,
                   selectedSegmentId, currentTime, localTime, now, loads>>

\* toggleSegmentSelection of the closure
StaleToggleSegmentSelection(trackId, segmentId) ==
    /\ tool = "stale"
    /\ edits < MaxStaleEdits
    /\ StalePush(ToggledTracks(closure.current, trackId, segmentId))
    /\ lastOp' = Op("select", TrackIndex(closure.current, trackId) + 1,
                    closure.current, segmentId, 0, "none", 0, TRUE, "", FALSE)
    /\ UNCHANGED <<closure, player, tool, maxHistory, nextVal, pushRun, audioBuffer,
                   selectedSegmentId, currentTime, localTime, now, loads>>

NextStale ==
    \/ StaleRender
    \/ StaleFilesSelect
    \/ tool = "stale" /\ \E i \in 1..Len(closure.current), clickTime \in ClickTimes :
          StaleTimelineClick(closure.current[i].id, clickTime)
    \/ tool = "stale" /\ \E i \in 1..Len(closure.current) :
          StaleCutTrack(closure.current[i].id)
    \/ tool = "stale" /\ \E i \in 1..Len(closure.current) :
          StaleDeleteSegment(closure.current[i].id)
    \/ tool = "stale" /\ \E i \in 1..Len(closure.current) :
          \E k \in 1..Len(closure.current[i].segments), edge \in {"start", "end"},
             newTime \in DragTimes :
             StaleResizeMouseMove(closure.current[i].id,
                                  closure.current[i].segments[k].id, edge, newTime)
    \/ tool = "stale" /\ \E i \in 1..Len(closure.current) :
          \E k \in 1..Len(closure.current[i].segments) :
             StaleToggleSegmentSelection(closure.current[i].id,
                                         closure.current[i].segments[k].id)

SpecStale == InitStale /\ [][NextStale]_vars

-----------------------------------------------------------------------------
(* useAudioPlayer, driven through what it returns, over a fixed buffer.
   The audio context's clock is counted in ticks; a buffer source that is
   stopped or plays to its end has an ended event queued, delivered later. *)

MaxClock == 54
MaxSources == 2

ClockStep == 6

\* the onended handler's margin: duration - 0.1
EndedMargin == 30

\* play() without an argument
NoOffset == -1

PlayOffsets == {NoOffset, 20, 60}
SeekTimes == {20, 60}

\* the hook's state and refs, with the audio context it was given
Hook ==
    [mounted |-> player.mounted, ctxState |-> player.ctxState, clock |-> player.clock,
     isPlaying |-> player.isPlaying, currentTime |-> currentTime,
     sources |-> player.sources, sourceRef |-> player.sourceRef,
     startTimeRef |-> player.startTimeRef, pauseTimeRef |-> player.pauseTimeRef,
     frames |-> player.frames, refLive |-> player.refLive, ended |-> player.ended,
     awaiting |-> player.awaiting]

Commit(h) ==
    /\ player' = [mounted |-> h.mounted, ctxState |-> h.ctxState, clock |-> h.clock,
                  isPlaying |-> h.isPlaying, sources |-> h.sources,
                  sourceRef |-> h.sourceRef, startTimeRef |-> h.startTimeRef,
                  pauseTimeRef |-> h.pauseTimeRef, frames |-> h.frames,
                  refLive |-> h.refLive, ended |-> h.ended, awaiting |-> h.awaiting]
    /\ currentTime' = h.currentTime

\* setIsPlaying, setCurrentTime: nothing is set once the component is unmounted
SetIsPlaying(h, v) == IF h.mounted THEN [h EXCEPT !.isPlaying = v] ELSE h

\* faulty variant: the reported position is never set back to 0
SetCurrentTimeNoReset(h, t) ==
    IF h.mounted /\ t # 0 THEN [h EXCEPT !.currentTime = t] ELSE h

SetCurrentTime(h, t) == IF h.mounted THEN [h EXCEPT !.currentTime = t] ELSE h

\* audioContext.currentTime - startTimeRef.current + pauseTimeRef.current
ElapsedOf(h) == h.clock - h.startTimeRef + h.pauseTimeRef

\* a source that was stopped or has played to its end
EndedSource == [endsAt |-> 0, live |-> FALSE]

\* the sources as they are when the clock shows clock
RECURSIVE PlayedTo(_, _)
PlayedTo(sources, clock) ==
    IF sources = <<>> THEN <<>>
    ELSE <<IF Head(sources).live /\ Head(sources).endsAt <= clock
           THEN EndedSource ELSE Head(sources)>> \o PlayedTo(Tail(sources), clock)

\* source.stop() on the i-th source created: a started source is stopped and
\* its ended event is queued; a source that has ended is left alone
StopSource(h, i) ==
    IF i # 0 /\ h.sources[i].live
    THEN [h EXCEPT !.sources = SubSeq(@, 1, i - 1) \o <<EndedSource>>
                                   \o SubSeq(@, i + 1, Len(@)),
                   !.ended = @ + 1]
    ELSE h

\* cancelAnimationFrame(animationFrameRef.current): only the callback whose
\* id the ref holds is cancelled
CancelFrame(h) ==
    IF h.refLive THEN [h EXCEPT !.frames = @ - 1, !.refLive = FALSE] ELSE h

\* animationFrameRef.current = requestAnimationFrame(updateTime)
RequestFrame(h) == [h EXCEPT !.frames = @ + 1, !.refLive = TRUE]

\* faulty variant: the effect's cleanup does not cancel the frame it requested
AnimationEffectNoCleanup(h) ==
    IF ~h.mounted THEN h
    ELSE IF h.isPlaying THEN RequestFrame(h)
    ELSE CancelFrame(h)

\* the re-render after a handler and the animation effect: its cleanup, then
\* its body.  updateTime is a new callback at every render (onTimeUpdate is
\* an inline function of the caller), so the effect runs at every render
AnimationEffect(h) ==
    IF ~h.mounted THEN h
    ELSE IF h.isPlaying THEN RequestFrame(CancelFrame(h))
    ELSE CancelFrame(CancelFrame(h))

\* play, after the await: the source is created, referenced and started
PlayStart(h, playFrom) ==
    LET source == IF playFrom < duration
                  THEN [endsAt |-> h.clock + duration - playFrom, live |-> TRUE]
                  ELSE EndedSource
        started == [h EXCEPT !.sources = Append(@, source),
                             !.sourceRef = Len(h.sources) + 1,
                             !.ended = IF source.live THEN @ ELSE @ + 1,
                             !.ctxState = "running",
                             !.startTimeRef = h.clock,
                             !.pauseTimeRef = playFrom]
    IN  SetIsPlaying(started, TRUE)

\* play(startFrom), up to the await of audioContext.resume()
Play(h, startFrom) ==
    LET playFrom == IF startFrom # NoOffset THEN startFrom ELSE h.pauseTimeRef
        stopped == StopSource(h, h.sourceRef)
    IN  IF stopped.ctxState = "suspended"
        THEN [stopped EXCEPT !.awaiting = Append(@, playFrom)]
        ELSE PlayStart(stopped, playFrom)

Pause(h) ==
    IF h.sourceRef # 0
    THEN LET stopped == [StopSource(h, h.sourceRef) EXCEPT
                            !.sourceRef = 0,
                            !.pauseTimeRef = ElapsedOf(h)]
         IN  CancelFrame(SetIsPlaying(stopped, FALSE))
    ELSE h

Stop(h) ==
    LET stopped == [StopSource(h, h.sourceRef) EXCEPT !.sourceRef = 0]
        reset == [SetCurrentTime(SetIsPlaying(stopped, FALSE), 0) EXCEPT
                    !.pauseTimeRef = 0]
    IN  CancelFrame(reset)

\* faulty variant: the time is not clamped
SeekNoClamp(time) == time

\* Math.max(0, Math.min(time, duration))
SeekClamp(time) == Max(0, Min(time, duration))

Seek(h, time) ==
    LET wasPlaying == h.isPlaying
        paused == IF wasPlaying THEN Pause(h) ELSE h
        sought == SetCurrentTime([paused EXCEPT !.pauseTimeRef = SeekClamp(time)],
                                 SeekClamp(time))
    IN  IF wasPlaying THEN Play(sought, sought.pauseTimeRef) ELSE sought

\* faulty variant: at the end the resting position is not cleared
UpdateTimeKeepsRest(h) ==
    LET elapsed == ElapsedOf(h)
        newTime == Min(elapsed, duration)
        shown == SetCurrentTime(h, newTime)
    IN  IF newTime < duration - Eps
        THEN RequestFrame(shown)
        ELSE CancelFrame(SetCurrentTime(SetIsPlaying(shown, FALSE), 0))

\* updateTime, the frame callback
UpdateTime(h) ==
    LET elapsed == ElapsedOf(h)
        newTime == Min(elapsed, duration)
        shown == SetCurrentTime(h, newTime)
    IN  IF newTime < duration - Eps
        THEN RequestFrame(shown)
        ELSE CancelFrame([SetCurrentTime(SetIsPlaying(shown, FALSE), 0) EXCEPT
                            !.pauseTimeRef = 0])

\* source.onended, the same handler for every source
OnEnded(h) ==
    IF ElapsedOf(h) >= duration - EndedMargin
    THEN [SetCurrentTime(SetIsPlaying(h, FALSE), 0) EXCEPT !.pauseTimeRef = 0]
    ELSE h

\* what the last step of the transport was: natural whether it found the
\* transport playing at the end of the track, rest the position left by a
\* pause that no play, seek or stop has followed (-1 otherwise)
PlayerOp(name, natural, rest) == [op |-> name, natural |-> natural, rest |-> rest]

AtEnd(h) == h.mounted /\ h.isPlaying /\ ElapsedOf(h) >= duration

InitPlayer ==
    /\ tool = "player"
    /\ maxHistory = DefaultMaxHistory
    /\ history = << <<>> >>
    /\ currentIndex = 0
    /\ nextVal = 0
    /\ pushRun = 0
    /\ closure = NoClosure
    /\ audioBuffer = FileA
    /\ selectedSegmentId = 0
    /\ currentTime = 0
    /\ localTime = <<>>
    /\ now = 1000
    /\ loads = 0
    /\ edits = 0
    /\ \E state \in {"running", "suspended"} :
          player = [mounted |-> TRUE, ctxState |-> state, clock |-> 0,
                    isPlaying |-> FALSE, sources |-> <<>>, sourceRef |-> 0,
                    startTimeRef |-> 0, pauseTimeRef |-> 0,
                    frames |-> 0, refLive |-> FALSE, ended |-> 0,
                    awaiting |-> <<>>]
    /\ lastOp = PlayerOp("none", FALSE, -1)

PlayerFrame == UNCHANGED <<tool, hookVars, nextVal, pushRun, closure, audioBuffer,
                           selectedSegmentId, localTime, now, loads, edits>>

PlayerPlay(startFrom) ==
    /\ tool = "player"
    /\ player.mounted
    /\ Len(player.sources) + Len(player.awaiting) < MaxSources
    /\ LET h == AnimationEffect(Play(Hook, startFrom))
       IN  /\ Commit(h)
           /\ lastOp' = PlayerOp("play", FALSE, -1)
    /\ PlayerFrame

\* audioContext.resume() resolves for the play that has awaited it longest
PlayerResumed ==
    /\ tool = "player"
    /\ player.awaiting # <<>>
    /\ LET h == AnimationEffect(
                    PlayStart([Hook EXCEPT !.awaiting = Tail(@)], Head(player.awaiting)))
       IN  /\ Commit(h)
           /\ lastOp' = PlayerOp("resumed", FALSE, -1)
    /\ PlayerFrame

PlayerPause ==
    /\ tool = "player"
    /\ player.mounted
    /\ LET h == AnimationEffect(Pause(Hook))
       IN  /\ Commit(h)
           /\ lastOp' = PlayerOp("pause", FALSE,
                                 IF player.sourceRef # 0 THEN h.pauseTimeRef
                                 ELSE lastOp.rest)
    /\ PlayerFrame

PlayerStop ==
    /\ tool = "player"
    /\ player.mounted
    /\ LET h == AnimationEffect(Stop(Hook))
       IN  /\ Commit(h)
           /\ lastOp' = PlayerOp("stop", FALSE, -1)
    /\ PlayerFrame

PlayerSeek(time) ==
    /\ tool = "player"
    /\ player.mounted
    /\ player.isPlaying => Len(player.sources) + Len(player.awaiting) < MaxSources
    /\ LET h == AnimationEffect(Seek(Hook, time))
       IN  /\ Commit(h)
           /\ lastOp' = PlayerOp("seek", FALSE, -1)
    /\ PlayerFrame

\* a requested frame comes: the one the ref holds, or another one
PlayerAnimationFrame ==
    /\ tool = "player"
    /\ player.frames > 0
    /\ \E ofRef \in BOOLEAN :
          /\ ofRef => player.refLive
          /\ ~ofRef => player.frames > (IF player.refLive THEN 1 ELSE 0)
          /\ LET due == [Hook EXCEPT !.frames = @ - 1,
                                     !.refLive = IF ofRef THEN FALSE ELSE @]
                 h == AnimationEffect(UpdateTime(due))
             IN  /\ Commit(h)
                 /\ lastOp' = PlayerOp("frame", AtEnd(Hook), lastOp.rest)
    /\ PlayerFrame

\* an ended event is delivered
PlayerEnded ==
    /\ tool = "player"
    /\ player.ended > 0
    /\ LET h == AnimationEffect(OnEnded([Hook EXCEPT !.ended = @ - 1]))
       IN  /\ Commit(h)
           /\ lastOp' = PlayerOp("ended", AtEnd(Hook), lastOp.rest)
    /\ PlayerFrame

\* the audio clock advances; a source that reaches its end has ended
PlayerTick ==
    /\ tool = "player"
    /\ player.ctxState = "running"
    /\ player.clock < MaxClock
    /\ LET clock == player.clock + ClockStep
           over == {i \in 1..Len(player.sources) :
                        player.sources[i].live /\ player.sources[i].endsAt <= clock}
       IN  player' = [player EXCEPT
                         !.clock = clock,
                         !.sources = PlayedTo(@, clock),
                         !.ended = @ + Cardinality(over)]
    /\ lastOp' = PlayerOp("tick", FALSE, lastOp.rest)
    /\ UNCHANGED currentTime
    /\ PlayerFrame

\* the component unmounts: the animation effect's cleanup and the unmount
\* cleanup run
PlayerUnmount ==
    /\ tool = "player"
    /\ player.mounted
    /\ LET h == [StopSource(CancelFrame(Hook), player.sourceRef) EXCEPT
                    !.mounted = FALSE]
       IN  /\ Commit(h)
           /\ lastOp' = PlayerOp("unmount", FALSE, lastOp.rest)
    /\ PlayerFrame

NextPlayer ==
    \/ \E startFrom \in PlayOffsets : PlayerPlay(startFrom)
    \/ PlayerResumed
    \/ PlayerPause
    \/ PlayerStop
    \/ \E time \in SeekTimes : PlayerSeek(time)
    \/ PlayerAnimationFrame
    \/ PlayerEnded
    \/ PlayerTick
    \/ PlayerUnmount

SpecPlayer == InitPlayer /\ [][NextPlayer]_vars

-----------------------------------------------------------------------------
(* Claims about the hook *)

\* C3: the history never holds more than maxHistory entries, and after a run
\* of maxHistory + k pushes (k >= 0, no undo or redo in between) it holds
\* exactly maxHistory entries, the most recently pushed states in push order,
\* with current the most recently pushed one.
C3_HistoryBound ==
    /\ Len(history) <= maxHistory
    /\ pushRun >= maxHistory =>
          /\ Len(history) = maxHistory
          /\ \A i \in 1..maxHistory : history[i] = nextVal - 1 - maxHistory + i
          /\ Current(history, currentIndex) = nextVal - 1

\* a run of pushes has gone past the capacity, so entries were evicted
C3_Witness == pushRun > maxHistory /\ maxHistory > 1

\* C4: a push issued below the top of the history (after undos) keeps the
\* entries up to the cursor, appends the pushed state as the last entry, leaves
\* nothing to redo, makes the pushed state current, and one undo from there
\* gives back the state that was current before the push.
C4_BranchTruncation ==
    (lastOp.op = "push" /\ lastOp.preIndex < Len(lastOp.preHistory) - 1) =>
        /\ history = SubSeq(lastOp.preHistory, 1, lastOp.preIndex + 1) \o <<lastOp.arg>>
        /\ ~canRedo
        /\ Current(history, currentIndex) = lastOp.arg
        /\ canUndo
        /\ Current(history, HUndo(history, currentIndex))
              = Current(lastOp.preHistory, lastOp.preIndex)

\* a push that cut off a redo branch of two entries
C4_Witness ==
    /\ lastOp.op = "push"
    /\ lastOp.preIndex + 2 < Len(lastOp.preHistory)

\* C5: undo at cursor 0 and redo at the last entry change neither the entries
\* nor the cursor, and the cursor always names a retained entry.
C5_BoundaryNoOp ==
    /\ currentIndex \in 0..(Len(history) - 1)
    /\ (lastOp.op = "undo" /\ lastOp.preIndex = 0) =>
          (history = lastOp.preHistory /\ currentIndex = 0)
    /\ (lastOp.op = "redo" /\ lastOp.preIndex = Len(lastOp.preHistory) - 1) =>
          (history = lastOp.preHistory /\ currentIndex = lastOp.preIndex)

\* undo was called at cursor 0 of a history whose first entries were evicted
C5_Witness ==
    /\ lastOp.op = "undo"
    /\ lastOp.preIndex = 0
    /\ history[1] > 0
    /\ Len(history) > 1

-----------------------------------------------------------------------------
(* Claims about the segment lists of the two tools *)

\* the list the last handler worked on, as it is now: the cutter's list, or
\* the list of the joiner track at the place the handler found it
PostSegments ==
    IF tool = "cutter" THEN CutterSegments
    ELSE IF lastOp.track <= Len(JoinerTracks)
         THEN JoinerTracks[lastOp.track].segments
         ELSE <<>>

\* the segments of a list other than those with the given id, in list order
Others(segments, id) == SelectSeq(segments, LAMBDA seg : seg.id # id)

RECURSIVE SortByStartTime(_)
\* the list sorted by startTime, equal starts kept in list order
SortByStartTime(segments) ==
    IF segments = <<>> THEN <<>>
    ELSE LET rest == SortByStartTime(Tail(segments))
             k == Cardinality({i \in 1..Len(rest) :
                                 rest[i].startTime < Head(segments).startTime})
         IN  SubSeq(rest, 1, k) \o <<Head(segments)>> \o SubSeq(rest, k + 1, Len(rest))

\* first start 0, every end the next start, last end the given total
Tiles(segments, total) ==
    /\ Len(segments) > 0
    /\ segments[1].startTime = 0
    /\ \A i \in 1..(Len(segments) - 1) : segments[i].endTime = segments[i + 1].startTime
    /\ segments[Len(segments)].endTime = total

C2_CutterTiling ==
    (tool = "cutter" /\ audioBuffer # NoBuffer) =>
        Tiles(SortByStartTime(CutterSegments),
              Duration(MergeAudioBuffers(Buffers(CutterSegments))))

\* C6: a cut at a time strictly inside segment s (more than Eps from both its
\* ends) is committed and puts two segments in the place of s: the first
\* starts where s started, it ends where the second starts, within Eps of the
\* cut time, and the second ends where s ended; the segments before and after
\* keep their ids and buffers, and the list is one longer.
C6_CutPositions ==
    (lastOp.op = "cut" /\ lastOp.pos > 0) =>
        LET pre == lastOp.pre
            p == lastOp.pos
            post == PostSegments
        IN  /\ lastOp.committed
            /\ Len(post) = Len(pre) + 1
            /\ post[p].startTime = pre[p].startTime
            /\ post[p].endTime = post[p + 1].startTime
            /\ post[p].endTime - lastOp.at <= Eps
            /\ lastOp.at - post[p].endTime <= Eps
            /\ post[p + 1].endTime = pre[p].endTime
            /\ \A i \in 1..(p - 1) :
                  post[i].id = pre[i].id /\ post[i].buffer = pre[i].buffer
            /\ \A i \in (p + 1)..Len(pre) :
                  post[i + 1].id = pre[i].id /\ post[i + 1].buffer = pre[i].buffer

C9_StartResizeKeepsEnd ==
    (lastOp.op = "resize" /\ lastOp.edge = "start") =>
        PostSegments[lastOp.pos].endTime = lastOp.pre[lastOp.pos].endTime

\* C10: in the state committed by an end-edge resize, in the cutter and in
\* the joiner, the resized segment starts where it started before the resize.
C10_EndResizeKeepsStart ==
    (lastOp.op = "resize" /\ lastOp.edge = "end") =>
        PostSegments[lastOp.pos].startTime = lastOp.pre[lastOp.pos].startTime

\* an end-edge resize shortened a segment of a list of two
C10_Witness ==
    /\ lastOp.op = "resize"
    /\ lastOp.edge = "end"
    /\ Len(lastOp.pre) = 2
    /\ PostSegments[lastOp.pos].endTime < lastOp.pre[lastOp.pos].endTime

\* C11: when the buffer work of a cut, delete or resize throws, in the cutter
\* or the joiner, nothing is pushed: the history entries, the cursor and the
\* list the handler read are as the handler found them.
C11_AtomicOnThrow ==
    (tool # "hook" /\ lastOp.op # "none" /\ lastOp.threw) =>
        /\ ~lastOp.committed
        /\ history = lastOp.preHistory
        /\ currentIndex = lastOp.preIndex
        /\ PostSegments = lastOp.pre

\* a trim threw during a joiner cut of a track that had been cut before
C11_Witness ==
    /\ tool = "joiner"
    /\ lastOp.op = "cut"
    /\ lastOp.threw
    /\ Len(lastOp.pre) = 2

-----------------------------------------------------------------------------
(* Claims about edits that overlap *)

\* C12: every structural edit is applied to the list left by the previously
\* committed edit, so the history holds one entry per committed edit, in
\* commit order, with the last one current: no commit drops the entry of an
\* earlier one (no undo, redo or eviction happens in SpecStale).
C12_NoStaleCommit ==
    tool = "stale" =>
        /\ Len(history) = edits + 1
        /\ currentIndex = edits
        /\ (lastOp.op \in {"cut", "delete", "resize"} /\ lastOp.committed /\ closure = Rendered) =>
              lastOp.pre = history[Len(history) - 1][lastOp.track].segments

-----------------------------------------------------------------------------
(* Claims about the transport *)

\* C13: after a pause of a playing transport the resting position is the
\* position reached at the pause, and it stays there, through the ended event
\* of the stopped source, until the next play, seek or stop.
C13_PausePreservesPosition ==
    (tool = "player" /\ lastOp.rest # -1) => player.pauseTimeRef = lastOp.rest

\* C14: a frame or an ended event that finds the transport playing with the
\* derived position at the duration leaves it not playing, with the reported
\* and the resting position both 0.
C14_NaturalEnd ==
    (tool = "player" /\ lastOp.op \in {"frame", "ended"} /\ lastOp.natural) =>
        /\ ~player.isPlaying
        /\ currentTime = 0
        /\ player.pauseTimeRef = 0

\* a frame found the transport at the end of a track played from 0 to its end
C14_Witness ==
    /\ tool = "player" /\ lastOp.op = "frame" /\ lastOp.natural
    /\ player.clock = duration /\ player.startTimeRef = 0

\* C15: every source that is started and not yet stopped is the one
\* sourceRef holds, so at most one is.
C15_SingleActiveSource ==
    tool = "player" =>
        \A i \in 1..Len(player.sources) :
            player.sources[i].live => i = player.sourceRef

\* C16: the reported position is within [0, duration] in every state, and
\* after a frame that leaves the transport playing it is the anchor plus the
\* clock's advance, clamped to [0, duration].
C16_PositionClamped ==
    tool = "player" =>
        /\ 0 <= currentTime /\ currentTime <= duration
        /\ (lastOp.op = "frame" /\ player.isPlaying) =>
              currentTime = Max(0, Min(ElapsedOf(Hook), duration))

\* a frame has reported a position past the offset the playback started from
C16_Witness ==
    /\ tool = "player" /\ lastOp.op = "frame" /\ player.isPlaying
    /\ player.pauseTimeRef = 20 /\ currentTime > 20

\* C17: the resting position pauseTimeRef is within [0, duration] in every
\* state, and a play that has started its source has recorded the clock at
\* the start.
C17_PlayAnchors ==
    tool = "player" =>
        /\ 0 <= player.pauseTimeRef /\ player.pauseTimeRef <= duration
        /\ (lastOp.op \in {"play", "resumed"} /\ player.sourceRef # 0) =>
              player.startTimeRef = player.clock

\* C18: at most one frame callback is pending, it is the one the ref holds,
\* and none is pending unless the component is mounted and playing.
C18_FrameLoopTornDown ==
    tool = "player" =>
        /\ player.frames <= 1
        /\ player.frames > 0 => (player.mounted /\ player.isPlaying /\ player.refLive)

\* a transport that had played for a while was paused
C18_Witness ==
    /\ tool = "player" /\ lastOp.op = "pause" /\ lastOp.rest > 0
    /\ player.frames = 0 /\ ~player.isPlaying

-----------------------------------------------------------------------------
(* Claims about selection and durations *)

\* C19: in the joiner a selection or deselection of a segment, and the
\* deselect-all of an outside click, push nothing: the history has the length
\* and the cursor it had before (and so the same canUndo and canRedo).
C19_SelectionNotHistory ==
    (tool = "joiner" /\ lastOp.op \in {"select", "deselect"}) =>
        /\ Len(history) = lastOp.preLength
        /\ currentIndex = lastOp.preIndex

\* the segments of a list whose positions span exactly their buffer
DerivedDurations(segments) ==
    \A i \in 1..Len(segments) :
        segments[i].endTime - segments[i].startTime = Duration(segments[i].buffer)

\* C20: in the current state of the cutter and of the joiner every segment
\* has endTime - startTime equal to the duration of its buffer (its length
\* over its sample rate).
C20_DerivedDuration ==
    /\ tool = "cutter" => DerivedDurations(CutterSegments)
    /\ tool = "joiner" =>
          \A i \in 1..Len(JoinerTracks) : DerivedDurations(JoinerTracks[i].segments)

\* the joiner alone keeps the equality: its cut and its resize take the
\* positions from the durations of the buffers they made
C20_JoinerDerivedDuration ==
    tool = "joiner" =>
        \A i \in 1..Len(JoinerTracks) : DerivedDurations(JoinerTracks[i].segments)

-----------------------------------------------------------------------------
(* Claims about the snapshots in the history *)

\* C21: once a file is loaded in the cutter every snapshot in the history has
\* at least one segment, and in the joiner every track of every snapshot has at
\* least one segment; so no merge of the current state is given an empty list.
C21_AtLeastOneSegment ==
    /\ (tool = "cutter" /\ audioBuffer # NoBuffer) =>
          \A k \in 1..Len(history) : Len(history[k].segments) >= 1
    /\ tool = "joiner" =>
          /\ \A k \in 1..Len(history) : \A i \in 1..Len(history[k]) :
                Len(history[k][i].segments) >= 1
          /\ \A i \in 1..Len(JoinerTracks) :
                ~MergeThrows(Buffers(JoinerTracks[i].segments))

\* a joiner delete took one of the two segments of a track
C21_Witness ==
    /\ tool = "joiner" /\ lastOp.op = "delete" /\ lastOp.committed
    /\ Len(lastOp.pre) = 2 /\ Len(PostSegments) = 1

\* the file whose load was the last to finish in the cutter
LoadedFile == IF loads = 2 THEN FileB ELSE FileA

\* C22: a load in the cutter leaves a history of exactly one entry with the
\* cursor at 0, nothing to undo and nothing to redo; and once a file is loaded
\* every snapshot in the history holds segments cut from the file loaded last,
\* so no undo or redo reaches a state of an earlier file or the empty state.
C22_ResetDiscardsHistory ==
    tool = "cutter" =>
        /\ lastOp.op = "load" =>
              /\ Len(history) = 1 /\ currentIndex = 0
              /\ ~canUndo /\ ~canRedo
              /\ CutterSegments = <<Segment(1, LoadedFile, 0, Duration(LoadedFile))>>
        /\ loads > 0 =>
              \A k \in 1..Len(history) :
                  /\ history[k].segments # <<>>
                  /\ \A i \in 1..Len(history[k].segments) :
                        /\ history[k].segments[i].buffer.sampleRate = LoadedFile.sampleRate
                        /\ Len(history[k].segments[i].buffer.channels)
                              = Len(LoadedFile.channels)

\* the second file was loaded over a history of edits of the first
C22_Witness ==
    /\ tool = "cutter" /\ lastOp.op = "load" /\ loads = 2
    /\ Len(lastOp.pre) = 2 /\ lastOp.preIndex > 0

C24_DeleteLastRemovesTrack ==
    (tool = "joiner" /\ lastOp.op = "delete" /\ lastOp.committed
        /\ Len(lastOp.pre) = 1) =>
        /\ currentIndex = lastOp.preIndex + 1
        /\ Len(history) = currentIndex + 1
        /\ LET before == history[currentIndex]
               t == lastOp.track
           IN  /\ before[t].segments = lastOp.pre
               /\ JoinerTracks = SubSeq(before, 1, t - 1)
                                    \o SubSeq(before, t + 1, Len(before))
               /\ Current(history, HUndo(history, currentIndex)) = before

\* the only segment of one of two tracks was deleted
C24_Witness ==
    /\ tool = "joiner" /\ lastOp.op = "delete" /\ lastOp.committed
    /\ Len(lastOp.pre) = 1 /\ Len(JoinerTracks) = 1

-----------------------------------------------------------------------------
(* Claims about cuts, trims and merges *)

\* the time is more than Eps away from both ends of some segment of the list
StrictlyInside(segments, time) ==
    \E i \in 1..Len(segments) :
        time > segments[i].startTime + Eps /\ time < segments[i].endTime - Eps

\* C25: a cut at a time that is not strictly inside any segment of the list
\* commits nothing: the history, the cursor and the current list are the ones
\* it found.
C25_CutOffSegmentNoOp ==
    (tool \in {"cutter", "joiner"} /\ lastOp.op = "cut"
        /\ ~StrictlyInside(lastOp.pre, lastOp.at)) =>
        /\ ~lastOp.committed
        /\ history = lastOp.preHistory
        /\ currentIndex = lastOp.preIndex
        /\ PostSegments = lastOp.pre

\* a cut was asked at the boundary an earlier cut had made
C25_Witness ==
    /\ tool = "joiner" /\ lastOp.op = "cut" /\ ~lastOp.threw
    /\ Len(lastOp.pre) = 2
    /\ ~StrictlyInside(lastOp.pre, lastOp.at)
    /\ lastOp.at - lastOp.pre[1].endTime <= Eps
    /\ lastOp.pre[1].endTime - lastOp.at <= Eps

-----------------------------------------------------------------------------
(* The joiner with its transport: useAudioPlayer over mergedBuffer, and the
   TrackTimelines that follow its currentTime *)

\* how far the audio clock runs while the joiner is followed
MaxJoinerClock == 18

\* the effect of every TrackTimeline on [globalTime]: setLocalTime(globalTime)
SyncLocalTime(times, globalTime) == [id \in DOMAIN times |-> globalTime]

\* the re-render after the hook's state h is committed: the TrackTimelines
\* whose globalTime prop has changed run their effect
CommitJoiner(h) ==
    /\ Commit(h)
    /\ localTime' = IF h.currentTime # currentTime
                    THEN SyncLocalTime(localTime, h.currentTime)
                    ELSE localTime

InitPlayheads ==
    /\ tool = "joiner"
    /\ maxHistory = DefaultMaxHistory
    /\ history = << <<>> >>
    /\ currentIndex = 0
    /\ nextVal = 0
    /\ pushRun = 0
    /\ closure = NoClosure
    /\ audioBuffer = NoBuffer
    /\ selectedSegmentId = 0
    /\ currentTime = 0
    /\ localTime = <<>>
    /\ now = 1000
    /\ loads = 0
    /\ edits = 0
    /\ \E state \in {"running", "suspended"} :
          player = [mounted |-> TRUE, ctxState |-> state, clock |-> 0,
                    isPlaying |-> FALSE, sources |-> <<>>, sourceRef |-> 0,
                    startTimeRef |-> 0, pauseTimeRef |-> 0,
                    frames |-> 0, refLive |-> FALSE, ended |-> 0,
                    awaiting |-> <<>>]
    /\ lastOp = NoOp

PlayheadsFrame == UNCHANGED <<tool, hookVars, nextVal, pushRun, closure, audioBuffer,
                              selectedSegmentId, now, loads, edits>>

\* the play button, shown while there are tracks and nothing plays:
\* play(currentTime)
PlayheadsPlay ==
    /\ tool = "joiner"
    /\ player.mounted
    /\ Len(JoinerTracks) > 0
    /\ ~player.isPlaying
    /\ Len(player.sources) + Len(player.awaiting) < MaxSources
    /\ CommitJoiner(AnimationEffect(Play(Hook, currentTime)))
    /\ lastOp' = PlayerOp("play", FALSE, -1)
    /\ PlayheadsFrame

\* audioContext.resume() resolves for the play that has awaited it longest
PlayheadsResumed ==
    /\ tool = "joiner"
    /\ player.mounted
    /\ player.awaiting # <<>>
    /\ CommitJoiner(AnimationEffect(
          PlayStart([Hook EXCEPT !.awaiting = Tail(@)], Head(player.awaiting))))
    /\ lastOp' = PlayerOp("resumed", FALSE, -1)
    /\ PlayheadsFrame

\* the pause button, shown while the transport plays
PlayheadsPause ==
    /\ tool = "joiner"
    /\ player.mounted
    /\ player.isPlaying
    /\ CommitJoiner(AnimationEffect(Pause(Hook)))
    /\ lastOp' = PlayerOp("pause", FALSE, -1)
    /\ PlayheadsFrame

\* a requested frame comes: updateTime, then the TrackTimelines follow
PlayheadsAnimationFrame ==
    /\ tool = "joiner"
    /\ player.mounted
    /\ player.frames > 0
    /\ \E ofRef \in BOOLEAN :
          /\ ofRef => player.refLive
          /\ ~ofRef => player.frames > (IF player.refLive THEN 1 ELSE 0)
          /\ LET due == [Hook EXCEPT !.frames = @ - 1,
                                     !.refLive = IF ofRef THEN FALSE ELSE @]
             IN  CommitJoiner(AnimationEffect(UpdateTime(due)))
    /\ lastOp' = PlayerOp("frame", AtEnd(Hook), -1)
    /\ PlayheadsFrame

\* an ended event is delivered
PlayheadsEnded ==
    /\ tool = "joiner"
    /\ player.mounted
    /\ player.ended > 0
    /\ CommitJoiner(AnimationEffect(OnEnded([Hook EXCEPT !.ended = @ - 1])))
    /\ lastOp' = PlayerOp("ended", AtEnd(Hook), -1)
    /\ PlayheadsFrame

\* the audio clock advances; a source that reaches its end has ended
PlayheadsTick ==
    /\ tool = "joiner"
    /\ player.mounted
    /\ player.ctxState = "running"
    /\ player.clock < MaxJoinerClock
    /\ LET clock == player.clock + ClockStep
           over == {i \in 1..Len(player.sources) :
                        player.sources[i].live /\ player.sources[i].endsAt <= clock}
       IN  player' = [player EXCEPT
                         !.clock = clock,
                         !.sources = PlayedTo(@, clock),
                         !.ended = @ + Cardinality(over)]
    /\ lastOp' = PlayerOp("tick", FALSE, -1)
    /\ UNCHANGED <<currentTime, localTime>>
    /\ PlayheadsFrame

NextPlayheads ==
    \/ \E files \in JoinerFiles : JoinerFilesSelect(files)
    \/ tool = "joiner" /\ \E i \in 1..Len(JoinerTracks), clickTime \in ClickTimes :
          JoinerTimelineClick(JoinerTracks[i].id, clickTime)
    \/ PlayheadsPlay
    \/ PlayheadsResumed
    \/ PlayheadsPause
    \/ PlayheadsAnimationFrame
    \/ PlayheadsEnded
    \/ PlayheadsTick

SpecPlayheads == InitPlayheads /\ [][NextPlayheads]_vars

-----------------------------------------------------------------------------
(* Claims about the joiner's playheads *)

\* the tracks whose playhead a step has moved
MovedPlayheads == {id \in DOMAIN localTime : localTime'[id] # localTime[id]}

\* C30: each track of the joiner keeps its own playhead.  A step that is not
\* of the transport (a click on one track's timeline) moves at most that
\* track's playhead; and a step after which the transport plays (global
\* playback started or advanced) does not force the tracks to one common
\* position: two tracks that were at different positions still are.
C30_IndependentPlayheads ==
    [][(tool = "joiner" /\ player.mounted /\ DOMAIN localTime' = DOMAIN localTime) =>
          /\ (player' = player /\ currentTime' = currentTime) =>
                Cardinality(MovedPlayheads) <= 1
          /\ ((player' # player \/ currentTime' # currentTime) /\ player'.isPlaying) =>
                \A a, b \in DOMAIN localTime :
                   localTime[a] # localTime[b] => localTime'[a] # localTime'[b]
      ]_vars

\* what the code keeps: a click on a timeline moves one playhead, and every
\* change of the transport's currentTime puts all playheads on it
C30_PlayheadsFollowTransport ==
    [][(tool = "joiner" /\ player.mounted /\ DOMAIN localTime' = DOMAIN localTime) =>
          /\ (player' = player /\ currentTime' = currentTime) =>
                Cardinality(MovedPlayheads) <= 1
          /\ currentTime' # currentTime =>
                \A id \in DOMAIN localTime : localTime'[id] = currentTime'
      ]_vars

C30_TwoPlayheadsApart ==
    /\ tool = "joiner" /\ player.mounted /\ player.isPlaying /\ player.frames > 0
    /\ Len(JoinerTracks) = 2
    /\ localTime[1] # localTime[2]
    /\ ElapsedOf(Hook) > currentTime

-----------------------------------------------------------------------------
(* Loads whose decodeAudioData rejects *)

\* the selections of the joiner's file input, and for each the files that
\* do not decode
DecodeFiles == {<<FileA>>, <<FileA, FileB>>}

\* what a load with a failing file leaves in lastOp
FailedLoad(pre, selected, failed) ==
    [op |-> "decodeFailed", pre |-> pre, selected |-> selected, failed |-> failed,
     preHistory |-> history, preIndex |-> currentIndex, preBuffer |-> audioBuffer]

\* handleFileSelect when loadAudioFile rejects: the catch logs and alerts.
\* The file was chosen while the input was rendered; the rejection may come
\* after another file's load has completed
CutterFileSelectThrows ==
    /\ tool = "cutter"
    /\ loads <= 1
    /\ lastOp' = FailedLoad(CutterSegments, 1, 1)
    /\ UNCHANGED <<closure, player, tool, hookVars, nextVal, pushRun, toolVars>>

\* the loop of handleFilesSelect from the k-th file on: a track for every
\* file that decodes, nothing for one that does not
RECURSIVE DecodedTracks(_, _, _)
DecodedTracks(files, failing, k) ==
    IF k > Len(files) THEN <<>>
    ELSE (IF k \in failing THEN <<>> ELSE <<NewTrack(files[k], loads + k)>>)
         \o DecodedTracks(files, failing, k + 1)

\* handleFilesSelect with at least one file that does not decode: the push
\* follows the loop whatever the loop has collected
JoinerFilesSelectThrows(files, failing) ==
    /\ tool = "joiner"
    /\ failing # {}
    /\ edits < MaxJoinerPushes
    /\ loads + Len(files) <= MaxFiles
    /\ JoinerPush(JoinerTracks \o DecodedTracks(files, failing, 1))
    /\ loads' = loads + Len(files)
    /\ lastOp' = FailedLoad(JoinerTracks, Len(files), Cardinality(failing))
    /\ UNCHANGED <<closure, player, tool, maxHistory, nextVal, pushRun, selectedSegmentId,
                   currentTime, now>>

NextDecode ==
    \/ NextCutter
    \/ CutterFileSelectThrows
    \/ \E files \in JoinerFiles : JoinerFilesSelect(files)
    \/ \E files \in DecodeFiles : \E failing \in SUBSET (1..Len(files)) :
          JoinerFilesSelectThrows(files, failing)
    \/ tool = "joiner" /\ \E i \in 1..Len(JoinerTracks), clickTime \in ClickTimes :
          JoinerTimelineClick(JoinerTracks[i].id, clickTime)
    \/ tool = "joiner" /\ \E i \in 1..Len(JoinerTracks) : JoinerCutTrack(JoinerTracks[i].id)
    \/ JoinerUndo
    \/ JoinerRedo

SpecDecode == Init /\ [][NextDecode]_vars

-----------------------------------------------------------------------------
(* Claims about failed loads *)

\* C31: a failed decode changes no editor state.  In the cutter the segment
\* list, the audio buffer and the history are as before.  In the joiner the
\* tracks are the earlier ones followed by one track per file that decoded,
\* and when every selected file failed the history (entries, cursor,
\* canUndo) is as before.
C31_FailedDecodeChangesNothing ==
    lastOp.op = "decodeFailed" =>
        /\ tool = "cutter" =>
              /\ history = lastOp.preHistory
              /\ currentIndex = lastOp.preIndex
              /\ audioBuffer = lastOp.preBuffer
              /\ CutterSegments = lastOp.pre
        /\ tool = "joiner" =>
              /\ Len(JoinerTracks) = Len(lastOp.pre) + lastOp.selected - lastOp.failed
              /\ SubSeq(JoinerTracks, 1, Len(lastOp.pre)) = lastOp.pre
              /\ lastOp.failed = lastOp.selected =>
                    /\ JoinerTracks = lastOp.pre
                    /\ history = lastOp.preHistory
                    /\ currentIndex = lastOp.preIndex
                    /\ canUndo = (lastOp.preIndex > 0)

\* what the two handlers keep: the cutter changes nothing, and the joiner's
\* track list gets no track for a file that failed
C31_FailedDecodeKeepsLists ==
    lastOp.op = "decodeFailed" =>
        /\ tool = "cutter" =>
              /\ history = lastOp.preHistory
              /\ currentIndex = lastOp.preIndex
              /\ audioBuffer = lastOp.preBuffer
              /\ CutterSegments = lastOp.pre
        /\ tool = "joiner" =>
              /\ Len(JoinerTracks) = Len(lastOp.pre) + lastOp.selected - lastOp.failed
              /\ SubSeq(JoinerTracks, 1, Len(lastOp.pre)) = lastOp.pre

C31_AllFilesFailed ==
    /\ tool = "joiner" /\ lastOp.op = "decodeFailed"
    /\ lastOp.failed = lastOp.selected /\ Len(lastOp.pre) > 0

-----------------------------------------------------------------------------
(* useHistory with several calls between two renders.  The callbacks are
   those of the last render: push closes over its currentIndex, undo and
   redo over its canUndo and canRedo.  history and currentIndex are here the
   state the next render will show, the queued updates applied. *)

\* the most calls between two renders, and the most pushes in all
MaxBatch == 2
MaxBatchPushes == 4

\* what the callbacks of a render close over; calls counts the updates
\* queued since, deferred tells that a push's updater has yet to run
RenderedHook(idx, h) ==
    [currentIndex |-> idx, canUndo |-> idx > 0, canRedo |-> idx < Len(h) - 1,
     calls |-> 0, deferred |-> FALSE]

\* the updater of push over the latest history prev, sliced at the
\* currentIndex of the closure: prev.slice(0, currentIndex + 1), push, shift
BatchUpdater(prev, idx, newState, max) ==
    LET appended == SubSeq(prev, 1, Min(idx + 1, Len(prev))) \o <<newState>>
    IN  IF Len(appended) > max THEN Tail(appended) ELSE appended

InitBatch ==
    /\ tool = "batch"
    /\ maxHistory \in 1..MaxCap
    /\ history = <<0>>
    /\ currentIndex = 0
    /\ nextVal = 1
    /\ pushRun = 0
    /\ closure = RenderedHook(0, <<0>>)
    /\ player = NoPlayer
    /\ audioBuffer = NoBuffer
    /\ selectedSegmentId = 0
    /\ currentTime = 0
    /\ localTime = <<>>
    /\ now = 1000
    /\ loads = 0
    /\ edits = 0
    /\ lastOp = NoOp

BatchFrame == UNCHANGED <<player, tool, maxHistory, pushRun, toolVars>>

\* push(newState).  React runs the updater at once when nothing is queued on
\* the component (eagerly), and at the next render otherwise; the
\* setCurrentIndex inside the updater is queued when the updater runs
BatchPush(eager) ==
    /\ tool = "batch"
    /\ closure.calls < MaxBatch
    /\ nextVal <= MaxBatchPushes
    /\ eager => closure.calls = 0
    /\ history' = BatchUpdater(history, closure.currentIndex, nextVal, maxHistory)
    /\ currentIndex' = IF eager THEN Len(history') - 1 ELSE currentIndex
    /\ closure' = [closure EXCEPT !.calls = @ + 1,
                                  !.deferred = IF eager THEN @ ELSE TRUE]
    /\ nextVal' = nextVal + 1
    /\ lastOp' = [op |-> "push"]
    /\ BatchFrame

\* undo(): if (canUndo) setCurrentIndex(prev => prev - 1)
BatchUndo ==
    /\ tool = "batch"
    /\ closure.calls < MaxBatch
    /\ closure.canUndo
    /\ currentIndex' = currentIndex - 1
    /\ closure' = [closure EXCEPT !.calls = @ + 1]
    /\ lastOp' = [op |-> "undo"]
    /\ UNCHANGED <<history, nextVal>>
    /\ BatchFrame

\* redo(): if (canRedo) setCurrentIndex(prev => prev + 1)
BatchRedo ==
    /\ tool = "batch"
    /\ closure.calls < MaxBatch
    /\ closure.canRedo
    /\ currentIndex' = currentIndex + 1
    /\ closure' = [closure EXCEPT !.calls = @ + 1]
    /\ lastOp' = [op |-> "redo"]
    /\ UNCHANGED <<history, nextVal>>
    /\ BatchFrame

\* the render: a deferred updater's setCurrentIndex comes after every queued
\* update of the cursor; the callbacks are made anew.  With the cursor out of
\* range current is undefined and the component does not render
BatchRender ==
    /\ tool = "batch"
    /\ closure.calls > 0
    /\ currentIndex' = IF closure.deferred THEN Len(history) - 1 ELSE currentIndex
    /\ closure' = IF currentIndex' \in 0..(Len(history) - 1)
                  THEN RenderedHook(currentIndex', history)
                  ELSE [RenderedHook(currentIndex', history) EXCEPT !.calls = MaxBatch]
    /\ lastOp' = [op |-> "render", calls |-> closure.calls]
    /\ UNCHANGED <<history, nextVal>>
    /\ BatchFrame

NextBatch ==
    \/ \E eager \in BOOLEAN : BatchPush(eager)
    \/ BatchUndo
    \/ BatchRedo
    \/ BatchRender

SpecBatch == InitBatch /\ [][NextBatch]_vars

-----------------------------------------------------------------------------
(* Claims about the cursor of the history *)

\* C32: the cursor is in range, 0 <= currentIndex <= history.length - 1, in
\* every state a render shows, also a render that follows several undo, redo
\* or push calls made with the callbacks of one render.
C32_CursorInRange ==
    (tool = "batch" /\ lastOp.op = "render") =>
        /\ currentIndex >= 0
        /\ currentIndex <= Len(history) - 1

\* what the hook keeps: the cursor is in range after a render that follows
\* a single call
C32_CursorInRangeSingleCall ==
    (tool = "batch" /\ lastOp.op = "render" /\ lastOp.calls = 1) =>
        /\ currentIndex >= 0
        /\ currentIndex <= Len(history) - 1

C32_SingleCallWitness ==
    /\ tool = "batch" /\ lastOp.op = "render" /\ lastOp.calls = 1
    /\ currentIndex = 1 /\ Len(history) = 3

-----------------------------------------------------------------------------
(* Both tools over a file whose duration is rounded *)

NextRounding ==
    \/ CutterFileSelect(FileC)
    \/ \E clickTime \in ClickTimes : CutterCanvasClick(clickTime)
    \/ CutterCutAtPosition
    \/ \E byKey \in BOOLEAN : CutterUndo(byKey)
    \/ JoinerFilesSelect(<<FileC>>)
    \/ tool = "joiner" /\ \E i \in 1..Len(JoinerTracks), clickTime \in ClickTimes :
          JoinerTimelineClick(JoinerTracks[i].id, clickTime)
    \/ tool = "joiner" /\ \E i \in 1..Len(JoinerTracks) : JoinerCutTrack(JoinerTracks[i].id)
    \/ JoinerUndo
    \/ JoinerRedo

SpecRounding == Init /\ [][NextRounding]_vars

-----------------------------------------------------------------------------
(* The joiner's transport while the track list changes under it *)

NextLiveEdit ==
    \/ \E files \in JoinerFiles : JoinerFilesSelect(files)
    \/ PlayheadsPlay
    \/ PlayheadsResumed
    \/ PlayheadsPause
    \/ PlayheadsAnimationFrame
    \/ PlayheadsEnded
    \/ PlayheadsTick
    \/ JoinerUndo
    \/ JoinerRedo

SpecLiveEdit == InitPlayheads /\ [][NextLiveEdit]_vars

-----------------------------------------------------------------------------
(* The transport left alone after play: the clock advances, the browser
   delivers frames, ended events and the resolution of resume() *)

\* a play early enough for the clock, which is followed up to MaxClock, to
\* pass the end of the buffer
PlaybackPlay(startFrom) ==
    /\ player.clock + duration <= MaxClock
    /\ PlayerPlay(startFrom)

\* likewise the resolution of resume(), which starts the awaiting play
PlaybackResumed ==
    /\ player.clock + duration <= MaxClock
    /\ PlayerResumed

NextPlayback ==
    \/ \E startFrom \in PlayOffsets : PlaybackPlay(startFrom)
    \/ PlaybackResumed
    \/ PlayerAnimationFrame
    \/ PlayerEnded
    \/ PlayerTick

SpecPlayback ==
    /\ InitPlayer
    /\ [][NextPlayback]_vars
    /\ WF_vars(PlaybackResumed)
    /\ WF_vars(PlayerAnimationFrame)
    /\ WF_vars(PlayerEnded)
    /\ WF_vars(PlayerTick)

-----------------------------------------------------------------------------
(* AudioUtils applied to drawn inputs *)

\* the longest list of buffers handed to mergeAudioBuffers
MaxMergeList == 3

\* buffers of both sample rates and both channel counts, whole and trimmed
MergeBuffers ==
    {FileA, FileB, TrimAudioBuffer(FileA, 0, 21), TrimAudioBuffer(FileB, 13, 36)}

\* the lists handed to mergeAudioBuffers, the empty one included
MergeInputs ==
    UNION {[1..n -> MergeBuffers] : n \in 0..MaxMergeList}

\* the times handed to trimAudioBuffer: before the start, on and off the
\* sample boundaries, the very end, and past the end
TrimTimes == {0 - 5, 0, 13, 21, 36, 48, 60}

InitUtils ==
    /\ tool = "utils"
    /\ maxHistory = DefaultMaxHistory
    /\ history = <<>>
    /\ currentIndex = 0
    /\ nextVal = 0
    /\ pushRun = 0
    /\ ToolIdle
    /\ \/ \E buffers \in MergeInputs :
             lastOp = [op |-> "mergeInput", buffers |-> buffers]
       \/ \E buffer \in {FileA, FileB} : \E startTime \in TrimTimes :
             \E endTime \in TrimTimes :
                lastOp = [op |-> "trimInput", buffer |-> buffer,
                          startTime |-> startTime, endTime |-> endTime]

\* await AudioUtils.mergeAudioBuffers(buffers)
UtilsMerge ==
    /\ tool = "utils"
    /\ lastOp.op = "mergeInput"
    /\ lastOp' =
          IF MergeThrows(lastOp.buffers)
          THEN [op |-> "merge", buffers |-> lastOp.buffers, threw |-> TRUE,
                result |-> NoBuffer]
          ELSE [op |-> "merge", buffers |-> lastOp.buffers, threw |-> FALSE,
                result |-> MergeAudioBuffers(lastOp.buffers)]
    /\ UNCHANGED <<tool, nextVal, pushRun, closure, player, hookVars, toolVars>>

\* await AudioUtils.trimAudioBuffer(buffer, startTime, endTime)
UtilsTrim ==
    /\ tool = "utils"
    /\ lastOp.op = "trimInput"
    /\ lastOp' =
          [op |-> "trim", buffer |-> lastOp.buffer,
           startTime |-> lastOp.startTime, endTime |-> lastOp.endTime,
           result |-> TrimAudioBuffer(lastOp.buffer, lastOp.startTime,
                                      lastOp.endTime)]
    /\ UNCHANGED <<tool, nextVal, pushRun, closure, player, hookVars, toolVars>>

NextUtils == UtilsMerge \/ UtilsTrim

SpecUtils == InitUtils /\ [][NextUtils]_vars

-----------------------------------------------------------------------------
(* Claims about merging and trimming *)

RECURSIVE SumLengths(_)
SumLengths(buffers) ==
    IF buffers = <<>> THEN 0
    ELSE BufLength(Head(buffers)) + SumLengths(Tail(buffers))

RECURSIVE SumBufferDurations(_)
SumBufferDurations(buffers) ==
    IF buffers = <<>> THEN 0
    ELSE Duration(Head(buffers)) + SumBufferDurations(Tail(buffers))

\* the merged buffer holds the inputs' samples in list order and is as long
\* as the inputs together
MergedInOrder(buffers, result) ==
    /\ BufLength(result) = SumLengths(buffers)
    /\ \A c \in 1..Len(result.channels) :
          result.channels[c] =
             Concat([k \in 1..Len(buffers) |->
                buffers[k].channels[Min(c, Len(buffers[k].channels))]])

\* C26: for every non-empty list of buffers, whatever their sample rates and
\* channel counts, the merged buffer holds the inputs' samples in list order,
\* its length is the sum of the input lengths, and its duration is the sum of
\* the input durations.
C26_MergeDuration ==
    (tool = "utils" /\ lastOp.op = "merge" /\ Len(lastOp.buffers) > 0) =>
        /\ ~lastOp.threw
        /\ MergedInOrder(lastOp.buffers, lastOp.result)
        /\ Duration(lastOp.result) = SumBufferDurations(lastOp.buffers)

\* what mergeAudioBuffers keeps: order and length always, the duration when
\* every input has the sample rate of the first
C26_MergeSameRate ==
    (tool = "utils" /\ lastOp.op = "merge" /\ Len(lastOp.buffers) > 0) =>
        /\ ~lastOp.threw
        /\ MergedInOrder(lastOp.buffers, lastOp.result)
        /\ (\A k \in 1..Len(lastOp.buffers) :
               lastOp.buffers[k].sampleRate = lastOp.buffers[1].sampleRate) =>
              Duration(lastOp.result) = SumBufferDurations(lastOp.buffers)

C26_SameRateWitness ==
    /\ tool = "utils" /\ lastOp.op = "merge" /\ Len(lastOp.buffers) = 3
    /\ \A k \in 1..3 : lastOp.buffers[k].sampleRate = FileB.sampleRate
    /\ lastOp.buffers[1] # lastOp.buffers[2]

\* a time clamped to [0, buffer.duration]
ClampToBuffer(b, time) == Max(0, Min(time, Duration(b)))

\* C27: trimAudioBuffer keeps the sample rate and the channels, clamps both
\* times to [0, duration], returns the input samples from floor(start * rate)
\* up to floor(end * rate) when that range is not empty, and returns one
\* sample (the one at the start, silence past the end) when it is empty: a
\* zero-length or inverted request, or a start at the very end.
C27_TrimClampsAndKeepsOneSample ==
    (tool = "utils" /\ lastOp.op = "trim") =>
        LET b == lastOp.buffer
            result == lastOp.result
            first == SampleAt(ClampToBuffer(b, lastOp.startTime), b.sampleRate)
            last == SampleAt(ClampToBuffer(b, lastOp.endTime), b.sampleRate)
        IN  /\ result.sampleRate = b.sampleRate
            /\ Len(result.channels) = Len(b.channels)
            /\ BufLength(result) >= 1
            /\ \A c \in 1..Len(result.channels) :
                  Len(result.channels[c]) = BufLength(result)
            /\ last > first =>
                  /\ BufLength(result) = last - first
                  /\ \A c \in 1..Len(b.channels) :
                        result.channels[c] = SubSeq(b.channels[c], first + 1, last)
            /\ last <= first =>
                  /\ BufLength(result) = 1
                  /\ \A c \in 1..Len(b.channels) :
                        result.channels[c][1] =
                           IF first < BufLength(b)
                           THEN b.channels[c][first + 1] ELSE 0

\* an inverted request that starts at the very end of the buffer
C27_Witness ==
    /\ tool = "utils" /\ lastOp.op = "trim"
    /\ lastOp.startTime = Duration(lastOp.buffer)
    /\ lastOp.endTime < lastOp.startTime
    /\ lastOp.endTime > 0
    /\ BufLength(lastOp.result) = 1

-----------------------------------------------------------------------------
(* Claims about the joiner's preview *)

\* the merged buffers of the tracks, as mergeTracks collects them
TrackBuffers(tracks) ==
    [i \in 1..Len(tracks) |-> MergeAudioBuffers(Buffers(tracks[i].segments))]

\* the length of the longest buffer of a list
MaxLength(buffers) ==
    CHOOSE n \in {BufLength(buffers[k]) : k \in 1..Len(buffers)} :
        \A k \in 1..Len(buffers) : BufLength(buffers[k]) <= n

\* C28: whenever the joiner's preview has been recomputed for a list of
\* tracks it is their mix aligned at time 0: its length is the maximum of the
\* tracks' merged lengths, not their sum.
C28_PreviewIsMix ==
    (tool = "joiner" /\ Len(JoinerTracks) > 0) =>
        BufLength(audioBuffer) = MaxLength(TrackBuffers(JoinerTracks))

\* what mergeTracks computes: the tracks one after the other
C28_PreviewIsConcatenation ==
    (tool = "joiner" /\ Len(JoinerTracks) > 0) =>
        /\ BufLength(audioBuffer) = SumLengths(TrackBuffers(JoinerTracks))
        /\ audioBuffer = MergeAudioBuffers(TrackBuffers(JoinerTracks))

C28_TwoTracks ==
    tool = "joiner" /\ Len(JoinerTracks) = 2 /\ lastOp.op = "cut" /\ lastOp.committed

\* C29: once no re-merge is pending or in flight, the playable buffer is the
\* one computed from the current list: the merge of the current tracks in the
\* joiner and of the current segments in the cutter, and a buffer without
\* samples when the list has become empty; no result of an older list stays.
C29_RemergeConverges ==
    /\ tool = "joiner" =>
          IF Len(JoinerTracks) > 0
          THEN audioBuffer = MergeAudioBuffers(TrackBuffers(JoinerTracks))
          ELSE BufLength(audioBuffer) = 0
    /\ tool = "cutter" =>
          IF Len(CutterSegments) > 0
          THEN audioBuffer = MergeAudioBuffers(Buffers(CutterSegments))
          ELSE BufLength(audioBuffer) = 0

\* what the two effects keep: the buffer follows every list that is not empty
C29_NonEmptyListFollowed ==
    /\ (tool = "joiner" /\ Len(JoinerTracks) > 0) =>
          audioBuffer = MergeAudioBuffers(TrackBuffers(JoinerTracks))
    /\ (tool = "cutter" /\ Len(CutterSegments) > 0) =>
          audioBuffer = MergeAudioBuffers(Buffers(CutterSegments))

C29_ListBecameEmpty ==
    tool = "joiner" /\ Len(JoinerTracks) = 0 /\ currentIndex > 0

-----------------------------------------------------------------------------
(* Claims about what a cut keeps *)

\* C33: a committed cut of segment s keeps the audio: the buffers of the two
\* new segments, one after the other, are sample for sample the buffer of s,
\* so the segments' buffer lengths add up to the same total before and after.
C33_CutPreservesAudio ==
    (tool \in {"cutter", "joiner"} /\ lastOp.op = "cut" /\ lastOp.committed) =>
        LET p == lastOp.pos
            s == lastOp.pre[p]
            post == PostSegments
        IN  /\ Len(post) = Len(lastOp.pre) + 1
            /\ post[p].buffer.sampleRate = s.buffer.sampleRate
            /\ post[p + 1].buffer.sampleRate = s.buffer.sampleRate
            /\ \A c \in 1..Len(s.buffer.channels) :
                  post[p].buffer.channels[c] \o post[p + 1].buffer.channels[c]
                     = s.buffer.channels[c]
            /\ SumLengths(Buffers(post)) = SumLengths(Buffers(lastOp.pre))

\* what both cuts keep: the two buffers, one after the other, are the buffer
\* of s from its first sample on, short of at most its last sample (the
\* second trim ends at floor(duration * sampleRate), and the duration is a
\* rounded number)
C33_CutKeepsAllButLastSample ==
    (tool \in {"cutter", "joiner"} /\ lastOp.op = "cut" /\ lastOp.committed) =>
        LET p == lastOp.pos
            s == lastOp.pre[p]
            post == PostSegments
            kept == BufLength(post[p].buffer) + BufLength(post[p + 1].buffer)
        IN  /\ Len(post) = Len(lastOp.pre) + 1
            /\ kept \in {BufLength(s.buffer) - 1, BufLength(s.buffer)}
            /\ \A c \in 1..Len(s.buffer.channels) :
                  post[p].buffer.channels[c] \o post[p + 1].buffer.channels[c]
                     = SubSeq(s.buffer.channels[c], 1, kept)

C33_LastSampleLost ==
    /\ tool = "joiner" /\ lastOp.op = "cut" /\ lastOp.committed
    /\ SumLengths(Buffers(PostSegments)) = SumLengths(Buffers(lastOp.pre)) - 1

-----------------------------------------------------------------------------
(* Claims about the transport over an edited buffer *)

\* C34: the playhead stays inside the audio.  Whatever edit, undo or redo
\* has changed the duration of the playable buffer, the transport's position
\* (with the transport at rest, as here, its resting position as well) is
\* within [0, duration] of the buffer as it is now.
C34_PlayheadInsideAudio ==
    (tool \in {"cutter", "joiner"} /\ audioBuffer # NoBuffer) =>
        /\ currentTime >= 0
        /\ currentTime <= duration

\* what the cutter keeps: the position is inside the buffer until a delete
\* or a resize has shortened the buffer, or an undo or redo has changed it
C34_PlayheadInsideUneditedAudio ==
    (tool \in {"cutter", "joiner"} /\ audioBuffer # NoBuffer
        /\ Duration(audioBuffer) >= Duration(FileA)) =>
        /\ currentTime >= 0
        /\ currentTime <= duration

C34_BufferShortened ==
    /\ tool = "cutter" /\ lastOp.op = "delete" /\ lastOp.committed
    /\ currentTime > 0
    /\ Duration(audioBuffer) < Duration(FileA)

\* the duration of the buffer the referenced source was started on, from
\* the clock value at which it ends and the anchors of its start
SoundingDuration ==
    player.sources[player.sourceRef].endsAt - player.startTimeRef + player.pauseTimeRef

\* C35: edits reach the audible source.  While the transport plays, the
\* source it refers to sounds the current playable buffer: after a change of
\* the segment list the playback has been stopped or restarted, so the buffer
\* the source was started on has the duration the transport now works with.
C35_SourcePlaysCurrentBuffer ==
    (player.mounted /\ player.isPlaying /\ player.sourceRef # 0
        /\ player.sources[player.sourceRef].live) =>
        SoundingDuration = duration

\* an undo that changed the playable buffer while a source was sounding
C35_EditedWhilePlaying ==
    /\ tool = "joiner" /\ player.mounted /\ player.isPlaying /\ player.sourceRef # 0
    /\ player.sources[player.sourceRef].live
    /\ canRedo
    /\ Len(JoinerTracks) = 1

-----------------------------------------------------------------------------
(* Claims about seek and about the end of playback *)

\* the sources that are started and not stopped
LiveSources(sources) == {i \in 1..Len(sources) : sources[i].live}

\* C36: seek(t) sets the position to t clamped to [0, duration] and keeps the
\* play state.  At rest the transport stays at rest, starts no source, and
\* its resting and reported positions are the clamped t.  While playing it
\* ends up playing from the clamped t: the anchors are the clamped t and the
\* clock, and the one source that is started and not stopped is the new one.
C36_SeekKeepsPlayState ==
    [][(tool = "player" /\ lastOp'.op = "seek") =>
          \E time \in SeekTimes :
             LET t == Max(0, Min(time, duration))
             IN  /\ player'.pauseTimeRef = t
                 /\ currentTime' = t
                 /\ player'.isPlaying = player.isPlaying
                 /\ ~player.isPlaying =>
                       /\ player'.sources = player.sources
                       /\ player'.awaiting = player.awaiting
                 /\ player.isPlaying =>
                       /\ player'.startTimeRef = player.clock
                       /\ player'.sourceRef = Len(player.sources) + 1
                       /\ LiveSources(player'.sources) = {player'.sourceRef}
      ]_vars

\* the same with the end of the buffer left out, a source started there
\* having nothing to play: a seek to a time before the end, by a transport
\* with no source besides the referenced one
C36_SeekInsideKeepsPlayState ==
    [][(tool = "player" /\ lastOp'.op = "seek"
          /\ LiveSources(player.sources) \subseteq {player.sourceRef}
          /\ player'.pauseTimeRef < duration) =>
          \E time \in SeekTimes :
             LET t == Max(0, Min(time, duration))
             IN  /\ player'.pauseTimeRef = t
                 /\ currentTime' = t
                 /\ player'.isPlaying = player.isPlaying
                 /\ ~player.isPlaying =>
                       /\ player'.sources = player.sources
                       /\ player'.awaiting = player.awaiting
                 /\ player.isPlaying =>
                       /\ player'.startTimeRef = player.clock
                       /\ player'.sourceRef = Len(player.sources) + 1
                       /\ LiveSources(player'.sources) = {player'.sourceRef}
      ]_vars

C36_SeekWhilePlaying ==
    /\ tool = "player" /\ lastOp.op = "seek" /\ player.isPlaying
    /\ player.pauseTimeRef = 20 /\ player.startTimeRef > 0
    /\ LiveSources(player.sources) = {player.sourceRef}

\* C37: playback terminates.  With the clock advancing, frames firing and
\* no further action of the user, a transport that is playing eventually is
\* not playing with its position back at 0; it does not stay playing at or
\* beyond the end of the buffer.
C37_PlaybackTerminates ==
    (tool = "player" /\ player.isPlaying)
        ~> (~player.isPlaying /\ currentTime = 0 /\ player.pauseTimeRef = 0)

\* a transport playing with its position at the end of the buffer
C37_Witness ==
    /\ tool = "player" /\ player.isPlaying
    /\ ElapsedOf(Hook) >= duration
    /\ player.startTimeRef = 0 /\ player.pauseTimeRef = 0

-----------------------------------------------------------------------------
(* Claims about segment ids *)

\* the ids of a list are pairwise distinct
DistinctIds(segments) ==
    \A i, j \in 1..Len(segments) : i # j => segments[i].id # segments[j].id

\* C38: in every state the segments of one list, the cutter's or a joiner
\* track's, have pairwise distinct ids, whatever the clock values at which
\* the cuts were made.
C38_UniqueSegmentIds ==
    /\ tool = "cutter" => DistinctIds(CutterSegments)
    /\ tool = "joiner" =>
          \A i \in 1..Len(JoinerTracks) : DistinctIds(JoinerTracks[i].segments)

\* what the ids of a cut give: the two halves of one cut differ, and a list
\* that has been cut once has distinct ids
C38_UniqueAfterOneCut ==
    (tool \in {"cutter", "joiner"} /\ lastOp.op = "cut" /\ lastOp.committed) =>
       /\ PostSegments[lastOp.pos].id # PostSegments[lastOp.pos + 1].id
       /\ Len(lastOp.pre) = 1 => DistinctIds(PostSegments)

C38_SecondCutOneMillisecondLater ==
    /\ tool = "cutter" /\ lastOp.op = "cut" /\ lastOp.committed
    /\ Len(lastOp.pre) = 2
    /\ \E i \in 1..2 : lastOp.pre[i].id = now

====
